---- MODULE Spec2Model ----
(***************************************************************************)
(* A model of the dungeon simulation engine of src/src/main.rs: the floor  *)
(* manager (MapManager), the seeded dungeon generator (Map::new), the      *)
(* per-floor snapshots (LevelState), the speed-gated tick loop of main     *)
(* and combat / progression (Entity, LevelSystem, Inventory).              *)
(*                                                                         *)
(* Time is counted in tenths of a second (TimeScale units per second), so  *)
(* the cooldown 1/speed of the player (speed 10) is 1 unit and that of a   *)
(* monster (speed 2) is 5 units.  Coordinates are the integer cells the    *)
(* f32 fields hold; Option values are sequences: <<>> is None and <<v>>    *)
(* is Some(v).                                                             *)
(***************************************************************************)
EXTENDS Integers, Sequences, FiniteSets, TLC

\* ------------------------------------------------------------------ bounds
\* GameConfig::default is 50 x 40; the model explores a smaller grid.
MapWidth == 14
MapHeight == 8
\* The clock get_time() is followed up to this many tenths of a second.
MaxTime == 2
\* The number of pseudo-random generator families StdRng is drawn from.
MaxFamily == 2
\* A session is also picked up MidStart tenths of a second after its start
\* and followed for MidSpan tenths.
MidStart == 200
MidSpan == 2
\* Entity::attack is applied to attack and defense values in -MaxStat .. MaxStat.
MaxStat == 4
\* LevelSystem::add_xp is applied to progression states of up to MaxLevelUps
\* earlier level-ups, with every current_xp below the threshold.
MaxLevelUps == 2
\* Map::find_path is followed on grids of PathWidth by PathHeight cells.
PathWidth == 5
PathHeight == 3
\* GameState::add_log_message is called up to MaxMessages times in a row.
MaxMessages == 7
MaxGround == 3
AnyWidth == 3
AnyHeight == 2
MaxKills == 30
MaxCarry == 2
MaxAdds == 4

\* ------------------------------------------------------- program constants
TimeScale == 10
MaxDepth == 10
DeepestLevel == 9
MaxRooms == 15
MinRoomSize == 5
MaxRoomSize == 10
XpPerKill == 50
LogCapacity == 5
InventoryCapacity == 20
LightningRange == 5
I32Max == 2147483647

None == <<>>
Some(v) == <<v>>
IsSome(o) == o # <<>>
Unwrap(o) == o[1]

Max(a, b) == IF a >= b THEN a ELSE b
Min(a, b) == IF a <= b THEN a ELSE b
Abs(a) == IF a >= 0 THEN a ELSE -a

\* ------------------------------------------------------------------- Room
Room(x, y, width, height) == [x |-> x, y |-> y, width |-> width, height |-> height]

center(room) == <<room.x + room.width \div 2, room.y + room.height \div 2>>

\* A rectangle test that lets rooms share a boundary line.
intersects_exclusive(self, other) ==
    /\ self.x < other.x + other.width
    /\ self.x + self.width > other.x
    /\ self.y < other.y + other.height
    /\ self.y + self.height > other.y

intersects(self, other) ==
    /\ self.x <= other.x + other.width
    /\ self.x + self.width >= other.x
    /\ self.y <= other.y + other.height
    /\ self.y + self.height >= other.y

\* A random_position over the whole rectangle of the room, border included.
random_position_with_border(room) ==
    (room.x .. (room.x + room.width - 1)) \X (room.y .. (room.y + room.height - 1))

\* The cells Room::random_position can return: gen_range over the half-open
\* ranges (x+1 .. x+width-1) and (y+1 .. y+height-1).
random_position(room) ==
    ((room.x + 1) .. (room.x + room.width - 2)) \X ((room.y + 1) .. (room.y + room.height - 2))

\* -------------------------------------------------------------------- Map
\* An is_walkable that tests the bounds only: walls can be entered.
is_walkable_through_walls(map, x, y) ==
    ~(x < 0 \/ y < 0 \/ x >= map.width \/ y >= map.height)

\* Map::is_walkable
is_walkable(map, x, y) ==
    IF x < 0 \/ y < 0 \/ x >= map.width \/ y >= map.height
    THEN FALSE
    ELSE map.tiles[<<x, y>>] \in {"Floor", "StairsUp", "StairsDown"}

\* Values are bound through a singleton set where an operator reads an
\* argument more than once, so that the argument is evaluated once.
create_room(tiles, room) ==
    CHOOSE carved \in {
        [c \in DOMAIN t |->
            IF /\ room.x <= c[1] /\ c[1] < room.x + room.width
               /\ room.y <= c[2] /\ c[2] < room.y + room.height
            THEN "Floor" ELSE t[c]] : t \in {tiles}} : TRUE

create_horizontal_tunnel(tiles, x1, x2, y) ==
    CHOOSE carved \in {
        [c \in DOMAIN t |->
            IF c[2] = y /\ Min(x1, x2) <= c[1] /\ c[1] <= Max(x1, x2)
            THEN "Floor" ELSE t[c]] : t \in {tiles}} : TRUE

create_vertical_tunnel(tiles, y1, y2, x) ==
    CHOOSE carved \in {
        [c \in DOMAIN t |->
            IF c[1] = x /\ Min(y1, y2) <= c[2] /\ c[2] <= Max(y1, y2)
            THEN "Floor" ELSE t[c]] : t \in {tiles}} : TRUE

\* ------------------------------------------------------ the seeded source
\* StdRng::seed_from_u64(level) is a deterministic function of the seed whose
\* values the source does not fix.  The model draws it from a family of
\* such functions: a family gives, for every seed, the candidate rectangle
\* and the corridor coin of each of the MaxRooms iterations.
Cand(x, y, w, h, coin) == [x |-> x, y |-> y, w |-> w, h |-> h, coin |-> coin]

\* Three rectangles gen_range can produce on the MapWidth x MapHeight grid:
\* w and h are min_room_size, 1 <= x < width - w - 1 and 1 <= y < height - h - 1.
CandLeft == Cand(1, 1, MinRoomSize, MinRoomSize, TRUE)
CandRight == Cand(MinRoomSize + 2, 1, MinRoomSize, MinRoomSize, FALSE)
CandOverlap == Cand(3, 1, MinRoomSize, MinRoomSize, TRUE)

\* The candidate of iteration i (1-based) for this seed.
SeededCandidate(family, seed, i) ==
    CASE family = 0 ->
            \* one room on every floor but the second, which has two
            IF seed = 1
            THEN (IF i % 3 = 1 THEN CandLeft ELSE IF i % 3 = 2 THEN CandOverlap ELSE CandRight)
            ELSE (IF i % 2 = 1 THEN CandLeft ELSE CandOverlap)
      [] family = 1 ->
            \* the same single room on every floor: up and down stairs share a cell
            IF i % 2 = 1 THEN CandLeft ELSE CandOverlap
      [] OTHER ->
            \* a single room, on the left on the first floor and on the right below it
            IF seed = 0
            THEN (IF i % 2 = 1 THEN CandLeft ELSE CandOverlap)
            ELSE (IF i % 2 = 1 THEN CandRight ELSE CandOverlap)

\* The tiles after the corridor from the previous room's center to the new one's.
ConnectRooms(tiles, prev, new, coin) ==
    IF coin
    THEN create_vertical_tunnel(create_horizontal_tunnel(tiles, prev[1], new[1], prev[2]),
                                prev[2], new[2], new[1])
    ELSE create_horizontal_tunnel(create_vertical_tunnel(tiles, prev[2], new[2], prev[1]),
                                  prev[1], new[1], new[2])

\* One iteration of the room loop (lines 567-591) on the accepted rooms and tiles.
PlaceRoom(c, temp_rooms, tiles) ==
    LET new_room == Room(c.x, c.y, c.w, c.h)
    IN  IF \E k \in 1 .. Len(temp_rooms) : intersects(temp_rooms[k], new_room)
        THEN [rooms |-> temp_rooms, tiles |-> tiles]
        ELSE [rooms |-> Append(temp_rooms, new_room),
              tiles |-> IF temp_rooms = <<>> THEN create_room(tiles, new_room)
                        ELSE ConnectRooms(create_room(tiles, new_room),
                                          center(temp_rooms[Len(temp_rooms)]),
                                          center(new_room), c.coin)]

\* The room loop of generate_dungeon_with_stairs_seeded, iterations i..MaxRooms.
RECURSIVE PlaceRooms(_, _, _, _)
PlaceRooms(family, seed, i, acc) ==
    IF i > MaxRooms THEN acc
    ELSE CHOOSE done \in {
            PlaceRooms(family, seed, i + 1, next)
            : next \in {PlaceRoom(SeededCandidate(family, seed, i), a.rooms, a.tiles) : a \in {acc}}}
         : TRUE

\* The stairs of generate_dungeon_with_stairs_seeded (lines 596-619) on the
\* generated rooms and tiles.
\* A stair placement without the depth tests: down stairs on the deepest
\* floor as well, and up stairs on the first.
PlaceStairsEveryFloor(width, height, level, stairs_up_pos, rooms, tiles) ==
    LET first_row == rooms[1]
        up_pos ==
            IF IsSome(stairs_up_pos) THEN stairs_up_pos
            ELSE IF first_row # <<>> THEN Some(center(first_row[1])) ELSE None
        last_row == rooms[Len(rooms)]
        down_pos ==
            IF last_row # <<>> THEN Some(center(last_row[Len(last_row)])) ELSE None
    IN  [width |-> width, height |-> height,
         tiles |-> [c \in DOMAIN tiles |->
                        IF IsSome(down_pos) /\ c = Unwrap(down_pos) THEN "StairsDown"
                        ELSE IF IsSome(up_pos) /\ c = Unwrap(up_pos) THEN "StairsUp"
                        ELSE tiles[c]],
         rooms |-> rooms, level |-> level, up_stairs |-> up_pos, down_stairs |-> down_pos]

\* The stair placement at the end of generate_dungeon_with_stairs_seeded
\* (lines 596-619); the down stairs are written after the up stairs.
PlaceStairs(width, height, level, stairs_up_pos, rooms, tiles) ==
    LET first_row == rooms[1]
        \* up stairs: the inherited position, else the first room's center
        up_pos ==
            IF level > 0
            THEN IF IsSome(stairs_up_pos) THEN stairs_up_pos
                 ELSE IF first_row # <<>> THEN Some(center(first_row[1])) ELSE None
            ELSE stairs_up_pos
        last_row == rooms[Len(rooms)]
        down_pos ==
            IF level < DeepestLevel /\ last_row # <<>>
            THEN Some(center(last_row[Len(last_row)]))
            ELSE None
    IN  [width |-> width, height |-> height,
         tiles |-> [c \in DOMAIN tiles |->
                        IF IsSome(down_pos) /\ c = Unwrap(down_pos) THEN "StairsDown"
                        ELSE IF level > 0 /\ IsSome(up_pos) /\ c = Unwrap(up_pos) THEN "StairsUp"
                        ELSE tiles[c]],
         rooms |-> rooms, level |-> level, up_stairs |-> up_pos, down_stairs |-> down_pos]

\* A generator that forgets the inherited position: the up stairs go to the
\* first room's center on every floor below the first.
MapNewOwnStairs(family, width, height, level, stairs_up_pos) ==
    CHOOSE map \in {
        PlaceStairs(width, height, level, None, <<placed.rooms>>, placed.tiles)
        : placed \in {PlaceRooms(family, level, 1,
                        [rooms |-> <<>>,
                         tiles |-> [c \in (0 .. width - 1) \X (0 .. height - 1) |-> "Wall"]])}}
    : TRUE

\* Map::new followed by generate_dungeon_with_stairs_seeded; self.rooms is
\* the single row vec![temp_rooms].
MapNew(family, width, height, level, stairs_up_pos) ==
    CHOOSE map \in {
        PlaceStairs(width, height, level, stairs_up_pos, <<placed.rooms>>, placed.tiles)
        : placed \in {PlaceRooms(family, level, 1,
                        [rooms |-> <<>>,
                         tiles |-> [c \in (0 .. width - 1) \X (0 .. height - 1) |-> "Wall"]])}}
    : TRUE

\* Map::check_for_stairs: the floor the stairs at (x, y) lead to.
check_for_stairs(map, x, y) ==
    IF y >= map.height \/ x >= map.width THEN None
    ELSE CASE map.tiles[<<x, y>>] = "StairsDown" -> Some(map.level + 1)
           [] map.tiles[<<x, y>>] = "StairsUp" -> Some(map.level - 1)
           [] OTHER -> None

\* ------------------------------------------------------------ LevelSystem
LevelSystemNew == [level |-> 1, current_xp |-> 0, xp_to_next_level |-> 100]

\* A level_up that starts the next level at 0 XP, dropping the surplus.
LevelSystem_level_up_no_carry(ls) ==
    [level |-> ls.level + 1, current_xp |-> 0,
     xp_to_next_level |-> (ls.xp_to_next_level * 3) \div 2]

\* LevelSystem::level_up; the threshold is (xp_to_next_level as f32 * 1.5) as i32.
LevelSystem_level_up(ls) ==
    [level |-> ls.level + 1,
     current_xp |-> ls.current_xp - ls.xp_to_next_level,
     xp_to_next_level |-> (ls.xp_to_next_level * 3) \div 2]

\* An add_xp that only accumulates and never levels up.
add_xp_accumulate(ls, xp) ==
    [ls |-> [ls EXCEPT !.current_xp = ls.current_xp + xp], leveled |-> FALSE]

\* LevelSystem::add_xp: the new state and the returned flag.
add_xp(ls, xp) ==
    LET gained == [ls EXCEPT !.current_xp = ls.current_xp + xp]
    IN  IF gained.current_xp >= gained.xp_to_next_level
        THEN [ls |-> LevelSystem_level_up(gained), leveled |-> TRUE]
        ELSE [ls |-> gained, leveled |-> FALSE]

\* ------------------------------------------------------------------ Items
new_sword == [name |-> "Sword", kind |-> "Weapon", value |-> 2]
new_armor == [name |-> "Chain Mail", kind |-> "Armor", value |-> 2]
new_health_potion == [name |-> "Health Potion", kind |-> "Potion", value |-> 10]
new_lightning_scroll == [name |-> "Lightning Scroll", kind |-> "Lightning", value |-> 20]
\* An Item with ItemType::Scroll(Effect::Teleport), for which there is no constructor.
teleport_scroll == [name |-> "Teleport Scroll", kind |-> "Teleport", value |-> 0]

\* The item of the match on rng.gen_range(0..4).
ItemOfDraw(d) ==
    CASE d = 0 -> new_sword
      [] d = 1 -> new_armor
      [] d = 2 -> new_health_potion
      [] OTHER -> new_lightning_scroll

InventoryNew(capacity) ==
    [items |-> <<>>, capacity |-> capacity, equipped_weapon |-> None, equipped_armor |-> None]

\* An add_item without the capacity test.
add_item_unbounded(inv, item) ==
    [ok |-> TRUE, inv |-> [inv EXCEPT !.items = Append(inv.items, item)], msg |-> ""]

\* Inventory::add_item: Err leaves the inventory as it was.
add_item(inv, item) ==
    IF Len(inv.items) >= inv.capacity
    THEN [ok |-> FALSE, inv |-> inv, msg |-> "Inventory is full!"]
    ELSE [ok |-> TRUE, inv |-> [inv EXCEPT !.items = Append(inv.items, item)], msg |-> ""]

\* Vec::remove(i), 1-based.
RemoveAt(s, i) == [k \in 1 .. Len(s) - 1 |-> IF k < i THEN s[k] ELSE s[k + 1]]

\* ----------------------------------------------------------------- Entity
\* perception is kept in halves (8.0 is 16), as level_up adds 0.5.
new_player ==
    [x |-> 5, y |-> 5, hp |-> 30, max_hp |-> 30, attack |-> 5, defense |-> 2,
     speed |-> 10, last_move |-> 0, perception |-> 16,
     level_system |-> Some(LevelSystemNew), is_player |-> TRUE,
     inventory |-> Some(InventoryNew(InventoryCapacity))]

new_monster(x, y) ==
    [x |-> x, y |-> y, hp |-> 15, max_hp |-> 15, attack |-> 3, defense |-> 1,
     speed |-> 2, last_move |-> 0, perception |-> 16,
     level_system |-> None, is_player |-> FALSE, inventory |-> None]

\* An is_alive that holds of every entity.
is_alive_whatever_hp(e) == TRUE

\* Entity::is_alive
is_alive(e) == e.hp > 0

\* A gate that lets every actor act at every tick.
can_move_ungated(e, time) == TRUE

\* current_time - last_move >= 1.0 / speed, in time units.
can_move(e, time) == time - e.last_move >= TimeScale \div e.speed

update_last_move(e, time) == [e EXCEPT !.last_move = time]

\* sqrt(dx^2 + dy^2) <= perception, with perception in halves.
can_perceive_target(e, tx, ty) ==
    4 * ((tx - e.x) * (tx - e.x) + (ty - e.y) * (ty - e.y)) <= e.perception * e.perception

Entity_level_up(e) ==
    [e EXCEPT !.max_hp = e.max_hp + 5, !.hp = e.max_hp + 5, !.attack = e.attack + 2,
              !.defense = e.defense + 1, !.perception = e.perception + 1]

Who(e) == IF e.is_player THEN "Player" ELSE "Monster"

\* The damage without the floor of 1.
AttackDamageUnfloored(attacker, target) == attacker.attack - target.defense

\* (self.stats.attack - target.stats.defense).max(1)
AttackDamage(attacker, target) == Max(attacker.attack - target.defense, 1)

\* An attack that grants the XP award on every hit of the player.
Entity_attack_xp_on_hit(self, target) ==
    LET damage == AttackDamage(self, target)
        hit == [target EXCEPT !.hp = target.hp - damage]
        hit_msg == Who(self) \o " hits " \o Who(target) \o " for " \o ToString(damage) \o " damage!"
    IN  IF self.is_player /\ IsSome(self.level_system)
        THEN LET r == add_xp(Unwrap(self.level_system), XpPerKill)
                 gained == [self EXCEPT !.level_system = Some(r.ls)]
             IN  [self |-> IF r.leveled THEN Entity_level_up(gained) ELSE gained,
                  target |-> hit, messages |-> <<hit_msg, "Gained 50 XP!">>]
        ELSE [self |-> self, target |-> hit, messages |-> <<hit_msg>>]

\* Entity::attack: the attacker and the target afterwards, and the messages.
Entity_attack(self, target) ==
    LET damage == AttackDamage(self, target)
        hit == [target EXCEPT !.hp = target.hp - damage]
        hit_msg == Who(self) \o " hits " \o Who(target) \o " for " \o ToString(damage) \o " damage!"
    IN  IF self.is_player /\ ~is_alive(hit) /\ IsSome(self.level_system)
        THEN LET r == add_xp(Unwrap(self.level_system), XpPerKill)
                 gained == [self EXCEPT !.level_system = Some(r.ls)]
             IN  IF r.leveled
                 THEN [self |-> Entity_level_up(gained), target |-> hit,
                       messages |-> <<hit_msg, "Gained 50 XP!",
                                      "Level Up! You are now level " \o ToString(r.ls.level) \o "!">>]
                 ELSE [self |-> gained, target |-> hit,
                       messages |-> <<hit_msg, "Gained 50 XP!">>]
        ELSE [self |-> self, target |-> hit, messages |-> <<hit_msg>>]

\* ---------------------------------------------------------------- use_item
\* The key of min_by_key in find_closest_monster: (distance * 100.0) as i32
\* within max_range, i32::MAX beyond it.  The squared distance orders the
\* monsters within range as the key does (the cells are integers and the
\* range is 5.0, so distinct squared distances give distinct keys).
DistanceKey(m, x, y, max_range) ==
    LET d2 == (m.x - x) * (m.x - x) + (m.y - y) * (m.y - y)
    IN  IF d2 <= max_range * max_range THEN d2 ELSE I32Max

\* GameState::find_closest_monster: the index of the monster returned, the
\* first of the live monsters with the least key; 0 for None.
find_closest_monster(ms, x, y, max_range) ==
    LET live == {i \in 1 .. Len(ms) : is_alive(ms[i])}
    IN  IF live = {} THEN 0
        ELSE CHOOSE i \in live : \A j \in live :
                \/ DistanceKey(ms[i], x, y, max_range) < DistanceKey(ms[j], x, y, max_range)
                \/ /\ DistanceKey(ms[i], x, y, max_range) = DistanceKey(ms[j], x, y, max_range)
                   /\ i <= j

\* Inventory::remove_item: the Option returned and the inventory afterwards.
remove_item(inv, index) ==
    IF index < Len(inv.items)
    THEN [item |-> Some(inv.items[index + 1]),
          inv |-> [inv EXCEPT !.items = RemoveAt(inv.items, index + 1)]]
    ELSE [item |-> None, inv |-> inv]

\* An equip_item that takes an item it cannot equip out of the list.
equip_item_consuming(inv, index) ==
    IF index >= Len(inv.items)
    THEN [ok |-> FALSE, msg |-> "Invalid item index!", inv |-> inv]
    ELSE [ok |-> FALSE, msg |-> "This item cannot be equipped!",
          inv |-> [inv EXCEPT !.items = RemoveAt(inv.items, index + 1)]]

\* Inventory::equip_item: ok is FALSE for Err; Option::replace hands the
\* item equipped before back to the end of the list.
equip_item(inv, index) ==
    IF index >= Len(inv.items)
    THEN [ok |-> FALSE, msg |-> "Invalid item index!", inv |-> inv]
    ELSE LET item == inv.items[index + 1]
             rest == RemoveAt(inv.items, index + 1)
         IN  CASE item.kind = "Weapon" ->
                    [ok |-> TRUE, msg |-> "Weapon equipped!",
                     inv |-> [inv EXCEPT !.items = rest \o inv.equipped_weapon,
                                         !.equipped_weapon = Some(item)]]
               [] item.kind = "Armor" ->
                    [ok |-> TRUE, msg |-> "Armor equipped!",
                     inv |-> [inv EXCEPT !.items = rest \o inv.equipped_armor,
                                         !.equipped_armor = Some(item)]]
               [] OTHER ->
                    [ok |-> FALSE, msg |-> "This item cannot be equipped!", inv |-> inv]

\* A use_item whose potion arm adds the heal amount without the cap.
use_item_unclamped(inv, index, entity, ms) ==
    IF index >= Len(inv.items)
    THEN [ok |-> FALSE, msg |-> "Invalid item index!",
          inv |-> inv, entity |-> entity, monsters |-> ms]
    ELSE LET item == inv.items[index + 1]
             removed == [inv EXCEPT !.items = RemoveAt(inv.items, index + 1)]
             closest == find_closest_monster(ms, entity.x, entity.y, LightningRange)
         IN  CASE item.kind = "Potion" ->
                    [ok |-> TRUE,
                     msg |-> "Used health potion! Healed for " \o ToString(item.value) \o " HP",
                     inv |-> removed,
                     entity |-> [entity EXCEPT !.hp = entity.hp + item.value],
                     monsters |-> ms]
               [] item.kind = "Lightning" /\ closest # 0 ->
                    [ok |-> TRUE,
                     msg |-> "Lightning bolt hits monster for " \o ToString(item.value) \o " damage!",
                     inv |-> removed, entity |-> entity,
                     monsters |-> [ms EXCEPT ![closest].hp = @ - item.value]]
               [] item.kind = "Lightning" /\ closest = 0 ->
                    [ok |-> FALSE, msg |-> "No monster in range!",
                     inv |-> inv, entity |-> entity, monsters |-> ms]
               [] item.kind = "Teleport" ->
                    [ok |-> FALSE, msg |-> "Effect not implemented!",
                     inv |-> inv, entity |-> entity, monsters |-> ms]
               [] OTHER ->
                    [ok |-> FALSE, msg |-> "This item cannot be used!",
                     inv |-> inv, entity |-> entity, monsters |-> ms]

\* Inventory::use_item on the item at `index` (0-based) for `entity`, with
\* the monsters of game_state: the inventory, the entity and the monsters
\* afterwards; ok is FALSE for Err.
use_item(inv, index, entity, ms) ==
    IF index >= Len(inv.items)
    THEN [ok |-> FALSE, msg |-> "Invalid item index!",
          inv |-> inv, entity |-> entity, monsters |-> ms]
    ELSE LET item == inv.items[index + 1]
             removed == [inv EXCEPT !.items = RemoveAt(inv.items, index + 1)]
             closest == find_closest_monster(ms, entity.x, entity.y, LightningRange)
         IN  CASE item.kind = "Potion" ->
                    [ok |-> TRUE,
                     msg |-> "Used health potion! Healed for " \o ToString(item.value) \o " HP",
                     inv |-> removed,
                     entity |-> [entity EXCEPT !.hp = Min(entity.hp + item.value, entity.max_hp)],
                     monsters |-> ms]
               [] item.kind = "Lightning" /\ closest # 0 ->
                    [ok |-> TRUE,
                     msg |-> "Lightning bolt hits monster for " \o ToString(item.value) \o " damage!",
                     inv |-> removed, entity |-> entity,
                     monsters |-> [ms EXCEPT ![closest].hp = @ - item.value]]
               [] item.kind = "Lightning" /\ closest = 0 ->
                    [ok |-> FALSE, msg |-> "No monster in range!",
                     inv |-> inv, entity |-> entity, monsters |-> ms]
               [] item.kind = "Teleport" ->
                    [ok |-> FALSE, msg |-> "Effect not implemented!",
                     inv |-> inv, entity |-> entity, monsters |-> ms]
               [] OTHER ->
                    [ok |-> FALSE, msg |-> "This item cannot be used!",
                     inv |-> inv, entity |-> entity, monsters |-> ms]

\* ------------------------------------------------------------- thread_rng
\* The draws of thread_rng that populate a floor, per generator family: the
\* values gen_range(0..3), Room::random_position, gen_bool(0.6) and
\* gen_range(0..4) are drawn from.
SpawnCountDraws(family, level) == {0, 1, 2}

SpawnCellDraws(family, level, room) ==
    {<<room.x + 1, room.y + room.height \div 2>>}

ItemRollDraws(family, level) ==
    IF level <= 1 THEN {TRUE, FALSE} ELSE {FALSE}

ItemCellDraws(family, level, room) ==
    {<<room.x + room.width - 2, room.y + room.height \div 2>>}

ItemKindDraws(family, level) ==
    IF family = 0 THEN (IF level = 0 THEN {2} ELSE {3})
    ELSE IF family = 1 THEN {0, 3} ELSE {1}

\* All sequences of n cells.
RECURSIVE CellSeqs(_, _)
CellSeqs(n, cells) ==
    IF n = 0 THEN {<<>>}
    ELSE {Append(s, c) : s \in CellSeqs(n - 1, cells), c \in cells}

\* The monsters one room can receive (lines 1145-1151).
RoomMonsters(family, map, room) ==
    UNION {
        {LET kept == SelectSeq(s, LAMBDA c : is_walkable(map, c[1], c[2]))
         IN  [k \in 1 .. Len(kept) |-> new_monster(kept[k][1], kept[k][2])]
         : s \in CellSeqs(n, SpawnCellDraws(family, map.level, room) \cap random_position(room))}
        : n \in SpawnCountDraws(family, map.level)}

\* The item list one room can receive (lines 1167-1176): empty or one item.
RoomItems(family, map, room) ==
    UNION {
        IF roll
        THEN {<<[x |-> c[1], y |-> c[2], item |-> ItemOfDraw(d)]>>
              : c \in ItemCellDraws(family, map.level, room) \cap random_position(room),
                d \in ItemKindDraws(family, map.level)}
        ELSE {<<>>}
        : roll \in ItemRollDraws(family, map.level)}

\* Every row without its first room, in order (for room in row.iter().skip(1)).
RECURSIVE SkipFirstRooms(_)
SkipFirstRooms(rows) ==
    IF rows = <<>> THEN <<>>
    ELSE (IF rows[1] = <<>> THEN <<>> ELSE Tail(rows[1])) \o SkipFirstRooms(Tail(rows))

RECURSIVE AllRooms(_)
AllRooms(rows) ==
    IF rows = <<>> THEN <<>> ELSE rows[1] \o AllRooms(Tail(rows))

\* The monster lists the loop over `rooms` (from room k on) can build.
RECURSIVE SpawnMonsters(_, _, _, _)
SpawnMonsters(family, map, rooms, k) ==
    IF k > Len(rooms) THEN {<<>>}
    ELSE {head \o rest : head \in RoomMonsters(family, map, rooms[k]),
                         rest \in SpawnMonsters(family, map, rooms, k + 1)}

RECURSIVE SpawnItems(_, _, _, _)
SpawnItems(family, map, rooms, k) ==
    IF k > Len(rooms) THEN {<<>>}
    ELSE {head \o rest : head \in RoomItems(family, map, rooms[k]),
                         rest \in SpawnItems(family, map, rooms, k + 1)}

spawn_items_for_current_level(family, map) ==
    SpawnItems(family, map, AllRooms(map.rooms), 1)

\* GameState::initialize_current_level: the states it can leave, as records
\* of the player, the monsters and the ground items.
initialize_current_level(family, map, plr) ==
    LET placed ==
            IF map.rooms # <<>> /\ map.rooms[1] # <<>>
            THEN [plr EXCEPT !.x = center(map.rooms[1][1])[1], !.y = center(map.rooms[1][1])[2]]
            ELSE plr
    IN  {[player |-> placed, monsters |-> ms, ground_items |-> gs]
         : ms \in SpawnMonsters(family, map, SkipFirstRooms(map.rooms), 1),
           gs \in spawn_items_for_current_level(family, map)}


\* ------------------------------------------------------------- find_path
Neighbors(c) == {<<c[1], c[2] + 1>>, <<c[1] + 1, c[2]>>, <<c[1], c[2] - 1>>, <<c[1] - 1, c[2]>>}

\* The walkable cells the search can reach from `frontier` without entering `avoid`.
RECURSIVE Flood(_, _, _, _)
Flood(map, frontier, seen, avoid) ==
    IF frontier = {} THEN seen
    ELSE LET next == {n \in UNION {Neighbors(c) : c \in frontier} :
                        n \notin seen /\ n # avoid /\ is_walkable(map, n[1], n[2])}
         IN  Flood(map, next, seen \cup next, avoid)

\* The neighbours of `start` that lie one step nearer to the goal, when the
\* breadth-first layers around the goal reach `start` at all: `frontier`
\* holds the cells at distance d from the goal.
RECURSIVE NearerNeighbors(_, _, _, _, _)
NearerNeighbors(map, frontier, seen, start, d) ==
    IF frontier = {} THEN [steps |-> {}, dist |-> 0]
    ELSE IF Neighbors(start) \cap frontier # {}
    THEN [steps |-> Neighbors(start) \cap frontier, dist |-> d + 1]
    ELSE LET next == {n \in UNION {Neighbors(c) : c \in frontier} :
                        n \notin seen /\ n # start /\ is_walkable(map, n[1], n[2])}
         IN  NearerNeighbors(map, next, seen \cup next, start, d + 1)

manhattan_distance(a, b) == Abs(a[1] - b[1]) + Abs(a[2] - b[2])

\* The cells `new_pos` can hold after lines 1417-1425: path[1] of the path
\* find_path returns, and the monster's own cell when find_path returns
\* None or a one-cell path.  The start node is expanded exactly once, so
\* path[1] is a walkable neighbour of start from which the goal is reached
\* without re-entering start.  When the shortest route is as long as the
\* Manhattan distance every node the search pops has f_cost equal to it, so
\* the path is a shortest one and path[1] is a neighbour one step nearer to
\* the goal; which of several the search picks depends on the order of
\* BinaryHeap among equal f_cost and on the iteration order of the HashSet
\* closed_set, so each of them is a possible outcome.
find_path_next(map, start, goal) ==
    IF start = goal \/ ~is_walkable(map, goal[1], goal[2]) THEN {start}
    ELSE LET near == NearerNeighbors(map, {goal}, {goal}, start, 0)
         IN  IF near.steps = {} THEN {start}
             ELSE IF near.dist = manhattan_distance(start, goal) THEN near.steps
             ELSE {n \in Neighbors(start) : n \in Flood(map, {goal}, {goal}, start)}

\* The four cells of the match on rng.gen_range(0..4) (lines 1429-1435).
RandomSteps(pos) == {<<pos[1] + 1, pos[2]>>, <<pos[1] - 1, pos[2]>>,
                     <<pos[1], pos[2] + 1>>, <<pos[1], pos[2] - 1>>}

\* ---------------------------------------------------------------- state
VARIABLES
    rng_family,     \* which deterministic generator StdRng (and the spawn draws) is
    maps,           \* MapManager.maps
    current_level,  \* MapManager.current_level
    player,         \* GameState.player
    monsters,       \* GameState.monsters
    ground_items,   \* GameState.ground_items
    level_states,   \* GameState.level_states
    combat_log,     \* GameState.combat_log
    current_time,   \* the current_time of the running tick of main's loop
    pc,             \* the position of main's loop within the tick
    \* history variables, read by the properties only
    requested,      \* Some(target) right after a transition request, else None
    left_behind,    \* per floor: the live lists at the player's last departure
    populated,      \* per floor: how often initialize_current_level populated it
    \* the value handed back by the last call whose result is kept
    \* (FindPathFound, UseItemResult, EquipItem, RemoveItem), None before it
    returned,
    \* the local variables of a call followed one loop iteration at a time
    \* (Map::find_path, generate_dungeon_with_stairs_seeded), or the arguments
    \* passed so far where one operation is applied over and over; None otherwise
    locals

vars == <<rng_family, maps, current_level, player, monsters, ground_items,
          level_states, combat_log, current_time, pc, requested, left_behind, populated,
          returned, locals>>

Levels == 0 .. MaxDepth - 1

current_map == maps[current_level + 1]

\* GameState::add_log_message
\* A log that turns the newest message away once it is full.
add_log_message_keep_oldest(log, message) ==
    IF Len(log) >= LogCapacity THEN log ELSE Append(log, message)

add_log_message(log, message) ==
    LET pushed == Append(log, message)
    IN  IF Len(pushed) > LogCapacity THEN Tail(pushed) ELSE pushed

RECURSIVE AddLogMessages(_, _)
AddLogMessages(log, messages) ==
    IF messages = <<>> THEN log
    ELSE AddLogMessages(add_log_message(log, messages[1]), Tail(messages))

\* ---------------------------------------------------------- MapManager
\* A change_level without the cache test: every descent generates a floor
\* and appends it, whether or not maps already holds the target.
change_level_uncached(family, ms, cur, new_level) ==
    IF new_level < 0 \/ new_level >= MaxDepth
    THEN [spawn |-> None, maps |-> ms, current_level |-> cur, panic |-> FALSE]
    ELSE
        LET going_down == new_level > cur
            grown ==
                IF going_down /\ IsSome(ms[cur + 1].down_stairs)
                THEN Append(ms, MapNew(family, MapWidth, MapHeight, new_level,
                                       ms[cur + 1].down_stairs))
                ELSE ms
        IN  [spawn |-> IF going_down THEN grown[new_level + 1].up_stairs
                                     ELSE grown[new_level + 1].down_stairs,
             maps |-> grown, current_level |-> new_level, panic |-> FALSE]

\* A change_level that seeds the generator of a new floor from the clock
\* instead of the floor index.
change_level_seeded_by_clock(family, ms, cur, new_level) ==
    IF new_level < 0 \/ new_level >= MaxDepth
    THEN [spawn |-> None, maps |-> ms, current_level |-> cur, panic |-> FALSE]
    ELSE
        LET going_down == new_level > cur
            last == ms[Len(ms)]
            must_generate == new_level >= Len(ms)
            unwrap_none == must_generate /\ going_down /\ ~IsSome(last.down_stairs)
            stairs_up_pos == IF going_down THEN last.down_stairs ELSE None
            grown ==
                IF must_generate /\ ~unwrap_none
                THEN Append(ms, MapNew(family, MapWidth, MapHeight, current_time, stairs_up_pos))
                ELSE ms
            out_of_range == new_level >= Len(grown)
        IN  IF unwrap_none \/ out_of_range
            THEN [spawn |-> None, maps |-> grown, current_level |-> new_level, panic |-> TRUE]
            ELSE [spawn |-> IF going_down THEN grown[new_level + 1].up_stairs
                                          ELSE grown[new_level + 1].down_stairs,
                  maps |-> grown, current_level |-> new_level, panic |-> FALSE]

\* A change_level that takes the new index as current before it tests the
\* range, and so keeps it when it refuses.
change_level_commits_early(family, ms, cur, new_level) ==
    IF new_level < 0 \/ new_level >= MaxDepth
    THEN [spawn |-> None, maps |-> ms, current_level |-> new_level, panic |-> FALSE]
    ELSE
        LET going_down == new_level > cur
            last == ms[Len(ms)]
            must_generate == new_level >= Len(ms)
            unwrap_none == must_generate /\ going_down /\ ~IsSome(last.down_stairs)
            stairs_up_pos == IF going_down THEN last.down_stairs ELSE None
            grown ==
                IF must_generate /\ ~unwrap_none
                THEN Append(ms, MapNew(family, MapWidth, MapHeight, new_level, stairs_up_pos))
                ELSE ms
            out_of_range == new_level >= Len(grown)
        IN  IF unwrap_none \/ out_of_range
            THEN [spawn |-> None, maps |-> grown, current_level |-> new_level, panic |-> TRUE]
            ELSE [spawn |-> IF going_down THEN grown[new_level + 1].up_stairs
                                          ELSE grown[new_level + 1].down_stairs,
                  maps |-> grown, current_level |-> new_level, panic |-> FALSE]

\* A change_level whose range test is off by one at the top: the index
\* max_depth passes it.
change_level_off_by_one(family, ms, cur, new_level) ==
    IF new_level < 0 \/ new_level > MaxDepth
    THEN [spawn |-> None, maps |-> ms, current_level |-> cur, panic |-> FALSE]
    ELSE
        LET going_down == new_level > cur
            last == ms[Len(ms)]
            must_generate == new_level >= Len(ms)
            unwrap_none == must_generate /\ going_down /\ ~IsSome(last.down_stairs)
            stairs_up_pos == IF going_down THEN last.down_stairs ELSE None
            grown ==
                IF must_generate /\ ~unwrap_none
                THEN Append(ms, MapNew(family, MapWidth, MapHeight, new_level, stairs_up_pos))
                ELSE ms
            out_of_range == new_level >= Len(grown)
        IN  IF unwrap_none \/ out_of_range
            THEN [spawn |-> None, maps |-> grown, current_level |-> new_level, panic |-> TRUE]
            ELSE [spawn |-> IF going_down THEN grown[new_level + 1].up_stairs
                                          ELSE grown[new_level + 1].down_stairs,
                  maps |-> grown, current_level |-> new_level, panic |-> FALSE]

\* MapManager::change_level.  `panic` is set where the code unwraps None or
\* indexes past the end of maps.
change_level(family, ms, cur, new_level) ==
    IF new_level < 0 \/ new_level >= MaxDepth
    THEN [spawn |-> None, maps |-> ms, current_level |-> cur, panic |-> FALSE]
    ELSE
        LET going_down == new_level > cur
            last == ms[Len(ms)]
            must_generate == new_level >= Len(ms)
            unwrap_none == must_generate /\ going_down /\ ~IsSome(last.down_stairs)
            stairs_up_pos == IF going_down THEN last.down_stairs ELSE None
            grown ==
                IF must_generate /\ ~unwrap_none
                THEN Append(ms, MapNew(family, MapWidth, MapHeight, new_level, stairs_up_pos))
                ELSE ms
            out_of_range == new_level >= Len(grown)
        IN  IF unwrap_none \/ out_of_range
            THEN [spawn |-> None, maps |-> grown, current_level |-> new_level, panic |-> TRUE]
            ELSE [spawn |-> IF going_down THEN grown[new_level + 1].up_stairs
                                          ELSE grown[new_level + 1].down_stairs,
                  maps |-> grown, current_level |-> new_level, panic |-> FALSE]

\* ------------------------------------------------------------ LevelState
EmptyLevelState == [monsters |-> <<>>, ground_items |-> <<>>]

\* A save that makes room for the floor's slot and never writes it.
save_pads_only(states, level, ms, gs) ==
    [k \in 1 .. Max(Len(states), level + 1) |->
        IF k <= Len(states) THEN states[k] ELSE EmptyLevelState]

\* A load that leaves the live lists as they are.
load_keeps_live(states, level, ms, gs) ==
    [monsters |-> ms, ground_items |-> gs]

\* GameState::save_current_level_state
save_current_level_state(states, level, ms, gs) ==
    LET padded == [k \in 1 .. Max(Len(states), level + 1) |->
                        IF k <= Len(states) THEN states[k] ELSE EmptyLevelState]
    IN  [padded EXCEPT ![level + 1] = [monsters |-> ms, ground_items |-> gs]]

\* GameState::load_level_state: the live lists afterwards.
load_level_state(states, level, ms, gs) ==
    IF level < Len(states)
    THEN [monsters |-> states[level + 1].monsters, ground_items |-> states[level + 1].ground_items]
    ELSE [monsters |-> ms, ground_items |-> gs]

\* --------------------------------------------------------------- pickup
\* GameState::check_and_pickup_items, visiting the indices from i downwards.
RECURSIVE PickupFrom(_, _, _, _)
PickupFrom(i, plr, gs, log) ==
    IF i = 0 THEN [player |-> plr, ground_items |-> gs, combat_log |-> log]
    ELSE IF ~(gs[i].x = plr.x /\ gs[i].y = plr.y) THEN PickupFrom(i - 1, plr, gs, log)
    ELSE IF ~IsSome(plr.inventory) THEN PickupFrom(i - 1, plr, gs, log)
    ELSE LET r == add_item(Unwrap(plr.inventory), gs[i].item)
         IN  IF r.ok
             THEN PickupFrom(i - 1, [plr EXCEPT !.inventory = Some(r.inv)], RemoveAt(gs, i),
                             add_log_message(log, "Picked up " \o gs[i].item.name \o "!"))
             ELSE [player |-> plr, ground_items |-> gs,
                   combat_log |-> add_log_message(log, r.msg)]

check_and_pickup_items(plr, gs, log) == PickupFrom(Len(gs), plr, gs, log)


\* GameState::pick_up_item: the first ground item at (x, y) is removed from
\* the list before add_item is tried; `result` is the Option<String> returned.
pick_up_item(plr, gs, x, y) ==
    LET at == {i \in 1 .. Len(gs) : gs[i].x = x /\ gs[i].y = y}
    IN  IF at = {} THEN [player |-> plr, ground_items |-> gs, result |-> None]
        ELSE LET index == CHOOSE i \in at : \A j \in at : i <= j
                 item == gs[index].item
                 rest == RemoveAt(gs, index)
             IN  IF ~IsSome(plr.inventory)
                 THEN [player |-> plr, ground_items |-> rest,
                       result |-> Some("No inventory available!")]
                 ELSE LET r == add_item(Unwrap(plr.inventory), item)
                      IN  IF r.ok
                          THEN [player |-> [plr EXCEPT !.inventory = Some(r.inv)],
                                ground_items |-> rest,
                                result |-> Some("Picked up " \o item.name \o "!")]
                          ELSE [player |-> plr, ground_items |-> rest, result |-> Some(r.msg)]

\* ------------------------------------------------------- the player's turn
Keys == {"W", "S", "A", "D"}

\* The first live monster standing on (x, y), in list order; 0 when none.
FirstMonsterAt(ms, x, y) ==
    LET at == {i \in 1 .. Len(ms) : is_alive(ms[i]) /\ ms[i].x = x /\ ms[i].y = y}
    IN  IF at = {} THEN 0 ELSE CHOOSE i \in at : \A j \in at : i <= j

\* A player's turn without the combat test: the player walks onto any
\* walkable target, a live monster's cell included.
player_turn_walk_through(plr, ms, gs, log, map, time, keys) ==
    LET new_x == plr.x + (IF "D" \in keys THEN 1 ELSE 0) - (IF "A" \in keys THEN 1 ELSE 0)
        new_y == plr.y + (IF "S" \in keys THEN 1 ELSE 0) - (IF "W" \in keys THEN 1 ELSE 0)
        moved == keys # {}
        timed == update_last_move(plr, time)
    IN  IF ~moved
        THEN [player |-> plr, monsters |-> ms, ground_items |-> gs, combat_log |-> log]
        ELSE IF is_walkable(map, new_x, new_y)
        THEN LET p == check_and_pickup_items([timed EXCEPT !.x = new_x, !.y = new_y], gs, log)
             IN  [player |-> p.player, monsters |-> ms, ground_items |-> p.ground_items,
                  combat_log |-> p.combat_log]
        ELSE [player |-> timed, monsters |-> ms, ground_items |-> gs, combat_log |-> log]

\* Lines 1568-1613 of main: the body of the player's gate, before the
\* level-transition check, for the keys that are down.
player_turn(plr, ms, gs, log, map, time, keys) ==
    LET new_x == plr.x + (IF "D" \in keys THEN 1 ELSE 0) - (IF "A" \in keys THEN 1 ELSE 0)
        new_y == plr.y + (IF "S" \in keys THEN 1 ELSE 0) - (IF "W" \in keys THEN 1 ELSE 0)
        moved == keys # {}
        timed == update_last_move(plr, time)
        target == FirstMonsterAt(ms, new_x, new_y)
    IN  IF ~moved
        THEN [player |-> plr, monsters |-> ms, ground_items |-> gs, combat_log |-> log]
        ELSE IF target # 0
        THEN LET r == Entity_attack(timed, ms[target])
             IN  [player |-> r.self, monsters |-> [ms EXCEPT ![target] = r.target],
                  ground_items |-> gs, combat_log |-> AddLogMessages(log, r.messages)]
        ELSE IF is_walkable(map, new_x, new_y)
        THEN LET p == check_and_pickup_items([timed EXCEPT !.x = new_x, !.y = new_y], gs, log)
             IN  [player |-> p.player, monsters |-> ms, ground_items |-> p.ground_items,
                  combat_log |-> p.combat_log]
        ELSE [player |-> timed, monsters |-> ms, ground_items |-> gs, combat_log |-> log]

\* The last reading of get_time() that is followed: MaxTime from the start
\* of a session, MidStart + MidSpan in a session picked up at MidStart.
LastTime == IF current_time >= MidStart THEN MidStart + MidSpan ELSE MaxTime

\* One pass of main's loop up to the level-transition check: the clock is
\* read and, when the player is alive and off cooldown, the keys are applied.
PlayerInput ==
    /\ pc = "input"
    /\ \E time \in current_time .. LastTime, keys \in SUBSET Keys :
        /\ current_time' = time
        /\ IF is_alive(player) /\ can_move(player, time)
           THEN LET r == player_turn(player, monsters, ground_items, combat_log,
                                     current_map, time, keys)
                IN  /\ player' = r.player
                    /\ monsters' = r.monsters
                    /\ ground_items' = r.ground_items
                    /\ combat_log' = r.combat_log
                    /\ pc' = "transition"
           ELSE /\ UNCHANGED <<player, monsters, ground_items, combat_log>>
                /\ pc' = "monsters"
    /\ UNCHANGED <<locals, returned, rng_family, maps, current_level, level_states,
                   requested, left_behind, populated>>

\* ------------------------------------------------------ level transition
\* The body of both arms of handle_level_transition (lines 1193-1208 and
\* 1213-1220) for a request to `target`; `descending` tells the arms apart.
TransitionTo(target, descending) ==
    LET saved == save_current_level_state(level_states, current_level, monsters, ground_items)
        is_new_level == descending /\ target >= Len(saved)
        r == change_level(rng_family, maps, current_level, target)
        entered == ~r.panic /\ IsSome(r.spawn)
    IN  /\ level_states' = saved
        /\ maps' = r.maps
        /\ current_level' = r.current_level
        /\ requested' = Some(target)
        /\ left_behind' =
                IF entered
                THEN [left_behind EXCEPT ![current_level] =
                        Some([monsters |-> monsters, ground_items |-> ground_items])]
                ELSE left_behind
        /\ populated' =
                IF entered /\ is_new_level
                THEN [populated EXCEPT ![target] = @ + 1]
                ELSE populated
        /\ IF r.panic
           THEN /\ pc' = "panicked"
                /\ UNCHANGED <<player, monsters, ground_items, combat_log>>
           ELSE IF ~IsSome(r.spawn)
           THEN /\ pc' = "monsters"
                /\ UNCHANGED <<player, monsters, ground_items, combat_log>>
           ELSE LET spawn == Unwrap(r.spawn)
                    arrived == [player EXCEPT !.x = spawn[1], !.y = spawn[2]]
                IN  /\ pc' = "monsters"
                    /\ combat_log' = add_log_message(combat_log,
                            (IF descending THEN "Descended" ELSE "Ascended")
                                \o " to level " \o ToString(target + 1))
                    /\ IF is_new_level
                       THEN \E init \in initialize_current_level(rng_family, r.maps[target + 1], arrived) :
                                /\ player' = init.player
                                /\ monsters' = init.monsters
                                /\ ground_items' = init.ground_items
                       ELSE LET loaded == load_level_state(saved, target, monsters, ground_items)
                            IN  /\ player' = arrived
                                /\ monsters' = loaded.monsters
                                /\ ground_items' = loaded.ground_items

TransitionKeys == {"None", "Period", "Comma"}

\* A level-transition check that does not look at the tile under the player.
handle_level_transition_any_tile(key) ==
    IF key = "Period" THEN TransitionTo(current_level + 1, TRUE)
    ELSE IF key = "Comma" THEN TransitionTo(current_level - 1, FALSE)
    ELSE /\ pc' = "monsters"
         /\ UNCHANGED <<maps, current_level, level_states, player, monsters,
                        ground_items, combat_log, requested, left_behind, populated>>

\* GameState::handle_level_transition with `key` pressed.
handle_level_transition(key) ==
    LET tile == IF player.y >= current_map.height \/ player.x >= current_map.width
                THEN "Wall" ELSE current_map.tiles[<<player.x, player.y>>]
    IN  IF tile = "StairsDown" /\ key = "Period" THEN TransitionTo(current_level + 1, TRUE)
        ELSE IF tile = "StairsUp" /\ key = "Comma" THEN TransitionTo(current_level - 1, FALSE)
        ELSE /\ pc' = "monsters"
             /\ UNCHANGED <<maps, current_level, level_states, player, monsters,
                            ground_items, combat_log, requested, left_behind, populated>>

LevelTransition ==
    /\ pc = "transition"
    /\ \E key \in TransitionKeys : handle_level_transition(key)
    /\ UNCHANGED <<locals, returned, rng_family, current_time>>

\* -------------------------------------------------------- monster turns
\* A resolution in which the monster, having hit the player, also takes the
\* player's cell.
ResolveStepOntoPlayer(m, plr, snapshot, map, time, new_pos) ==
    IF is_walkable(map, new_pos[1], new_pos[2])
    THEN IF plr.x = new_pos[1] /\ plr.y = new_pos[2]
         THEN LET r == Entity_attack(m, plr)
              IN  [monster |-> update_last_move([r.self EXCEPT !.x = new_pos[1], !.y = new_pos[2]], time),
                   player |-> r.target]
         ELSE IF new_pos \notin snapshot
         THEN [monster |-> update_last_move([m EXCEPT !.x = new_pos[1], !.y = new_pos[2]], time),
               player |-> plr]
         ELSE [monster |-> update_last_move(m, time), player |-> plr]
    ELSE [monster |-> update_last_move(m, time), player |-> plr]

\* The monster at index i after its proposed step new_pos is resolved
\* (lines 1439-1461), with the player it may have hit.
ResolveStep(m, plr, snapshot, map, time, new_pos) ==
    IF is_walkable(map, new_pos[1], new_pos[2])
    THEN IF plr.x = new_pos[1] /\ plr.y = new_pos[2]
         THEN LET r == Entity_attack(m, plr)
              IN  [monster |-> IF is_alive(r.self) THEN update_last_move(r.self, time) ELSE r.self,
                   player |-> r.target]
         ELSE IF new_pos \notin snapshot
         THEN [monster |-> update_last_move([m EXCEPT !.x = new_pos[1], !.y = new_pos[2]], time),
               player |-> plr]
         ELSE [monster |-> update_last_move(m, time), player |-> plr]
    ELSE [monster |-> update_last_move(m, time), player |-> plr]

\* A policy that wanders whether or not the player is perceived.
ProposedStepsRoamAlways(m, plr, map) == RandomSteps(<<m.x, m.y>>)

\* The cells monster m can propose (lines 1417-1436).
ProposedSteps(m, plr, map) ==
    IF can_perceive_target(m, plr.x, plr.y)
    THEN find_path_next(map, <<m.x, m.y>>, <<plr.x, plr.y>>)
    ELSE RandomSteps(<<m.x, m.y>>)

\* The loop of process_monster_turns from index i on: every outcome, as
\* records of the monsters and the player.
RECURSIVE MonsterLoop(_, _, _, _, _, _)
MonsterLoop(i, ms, plr, snapshot, map, time) ==
    IF i > Len(ms) THEN {[monsters |-> ms, player |-> plr]}
    ELSE IF ~is_alive(ms[i]) \/ ~can_move(ms[i], time)
    THEN MonsterLoop(i + 1, ms, plr, snapshot, map, time)
    ELSE UNION {
            LET r == ResolveStep(ms[i], plr, snapshot, map, time, new_pos)
            IN  MonsterLoop(i + 1, [ms EXCEPT ![i] = r.monster], r.player, snapshot, map, time)
            : new_pos \in ProposedSteps(ms[i], plr, map)}

\* A monster loop that tests collisions against the positions the live
\* monsters hold when each monster is processed.
RECURSIVE MonsterLoopLive(_, _, _, _, _)
MonsterLoopLive(i, ms, plr, map, time) ==
    IF i > Len(ms) THEN {[monsters |-> ms, player |-> plr]}
    ELSE IF ~is_alive(ms[i]) \/ ~can_move(ms[i], time)
    THEN MonsterLoopLive(i + 1, ms, plr, map, time)
    ELSE UNION {
            LET live == {<<ms[k].x, ms[k].y>> : k \in {j \in 1 .. Len(ms) : is_alive(ms[j])}}
                r == ResolveStep(ms[i], plr, live, map, time, new_pos)
            IN  MonsterLoopLive(i + 1, [ms EXCEPT ![i] = r.monster], r.player, map, time)
            : new_pos \in ProposedSteps(ms[i], plr, map)}

process_monster_turns_live(ms, plr, map, time) == MonsterLoopLive(1, ms, plr, map, time)

\* A monster loop that skips monsters on cooldown only, so that a monster
\* killed earlier in the tick still takes its turn.
RECURSIVE MonsterLoopDead(_, _, _, _, _, _)
MonsterLoopDead(i, ms, plr, snapshot, map, time) ==
    IF i > Len(ms) THEN {[monsters |-> ms, player |-> plr]}
    ELSE IF ~can_move(ms[i], time)
    THEN MonsterLoopDead(i + 1, ms, plr, snapshot, map, time)
    ELSE UNION {
            LET r == ResolveStep(ms[i], plr, snapshot, map, time, new_pos)
            IN  MonsterLoopDead(i + 1, [ms EXCEPT ![i] = r.monster], r.player, snapshot, map, time)
            : new_pos \in ProposedSteps(ms[i], plr, map)}

process_monster_turns_dead_act(ms, plr, map, time) ==
    LET monster_positions == {<<ms[i].x, ms[i].y>> : i \in {k \in 1 .. Len(ms) : is_alive(ms[k])}}
    IN  MonsterLoopDead(1, ms, plr, monster_positions, map, time)

\* GameState::process_monster_turns; monster_positions is the snapshot of
\* the live monsters' cells taken before the loop.
process_monster_turns(ms, plr, map, time) ==
    LET monster_positions == {<<ms[i].x, ms[i].y>> : i \in {k \in 1 .. Len(ms) : is_alive(ms[k])}}
    IN  MonsterLoop(1, ms, plr, monster_positions, map, time)

MonsterTurns ==
    /\ pc = "monsters"
    /\ \E r \in process_monster_turns(monsters, player, current_map, current_time) :
        /\ monsters' = r.monsters
        /\ player' = r.player
    /\ pc' = "purge"
    /\ requested' = None
    /\ UNCHANGED <<locals, returned, rng_family, maps, current_level, ground_items, level_states,
                   combat_log, current_time, left_behind, populated>>

\* A tick that ends without the purge.
PurgeSkipped ==
    /\ pc = "purge"
    /\ pc' = "input"
    /\ UNCHANGED <<locals, returned, rng_family, maps, current_level, player, monsters, ground_items,
                   level_states, combat_log, current_time, requested, left_behind, populated>>

\* game_state.monsters.retain(|m| m.is_alive())
Purge ==
    /\ pc = "purge"
    /\ monsters' = SelectSeq(monsters, is_alive)
    /\ pc' = "input"
    /\ UNCHANGED <<locals, returned, rng_family, maps, current_level, player, ground_items, level_states,
                   combat_log, current_time, requested, left_behind, populated>>

\* ------------------------------------------------------------------ Init
\* GameState::new: the first floor is generated and populated.
Init ==
    /\ rng_family \in 0 .. MaxFamily
    /\ maps = <<MapNew(rng_family, MapWidth, MapHeight, 0, None)>>
    /\ current_level = 0
    /\ \E init \in initialize_current_level(rng_family,
                        MapNew(rng_family, MapWidth, MapHeight, 0, None), new_player) :
        /\ player = init.player
        /\ monsters = init.monsters
        /\ ground_items = init.ground_items
    /\ level_states = <<>>
    /\ combat_log = <<>>
    /\ current_time = 0
    /\ pc = "input"
    /\ requested = None
    /\ returned = None
    /\ locals = None
    /\ left_behind = [l \in Levels |-> None]
    /\ populated = [l \in Levels |-> IF l = 0 THEN 1 ELSE 0]

Next == PlayerInput \/ LevelTransition \/ MonsterTurns \/ Purge

Spec == Init /\ [][Next]_vars

\* ------------------------------------------------- out-of-range requests
\* The body of an arm of handle_level_transition entered where its target
\* current_level +/- 1 leaves [0, max_depth): the request change_level refuses.
RequestOutOfRange ==
    /\ pc = "transition"
    /\ \E descending \in BOOLEAN :
        LET target == IF descending THEN current_level + 1 ELSE current_level - 1
        IN  /\ target \notin Levels
            /\ TransitionTo(target, descending)
    /\ UNCHANGED <<locals, returned, rng_family, current_time>>

NextRequest == Next \/ RequestOutOfRange

SpecRequest == Init /\ [][NextRequest]_vars

\* ------------------------------------------------------ a session under way
\* The session of generator family 0, MidStart tenths of a second in: the
\* player went down to the second floor, whose second room was populated
\* with two monsters, walked along the corridor to (6, 3) and has been
\* fighting there.  The monsters stand in a row next to the player; the
\* first has been hit three times, the player has its full health or a
\* single point left, and either both monsters live or one of them was
\* killed for XpPerKill experience.  The player holds the
\* potion of the first floor and the scroll it walked over.  The first
\* monster last acted four tenths of a second ago, the second five.
MidMaps == change_level(0, <<MapNew(0, MapWidth, MapHeight, 0, None)>>, 0, 1).maps

MidPlayer(hp, xp, items) ==
    [new_player EXCEPT !.x = 6, !.y = 3, !.hp = hp, !.last_move = MidStart - 1,
        !.level_system = Some([LevelSystemNew EXCEPT !.current_xp = xp]),
        !.inventory = Some([InventoryNew(InventoryCapacity) EXCEPT !.items = items])]

MidMonster(x, hp, last_move) ==
    [new_monster(x, 3) EXCEPT !.hp = hp, !.last_move = last_move]

InitMid ==
    /\ rng_family = 0
    /\ maps = MidMaps
    /\ current_level = 1
    /\ \E hp \in {1, 30}, both \in BOOLEAN :
        /\ player = MidPlayer(hp, IF both THEN 0 ELSE XpPerKill,
                              <<new_health_potion, new_lightning_scroll>>)
        /\ monsters = IF both
                      THEN <<MidMonster(7, 3, MidStart - 4), MidMonster(8, 15, MidStart - 5)>>
                      ELSE <<MidMonster(7, 3, MidStart - 4)>>
    /\ ground_items = <<[x |-> 10, y |-> 3, item |-> new_lightning_scroll]>>
    /\ level_states = <<EmptyLevelState>>
    /\ combat_log = <<"Descended to level 2">>
    /\ current_time = MidStart
    /\ pc = "input"
    /\ requested = None
    /\ returned = None
    /\ locals = None
    /\ left_behind = [l \in Levels |-> IF l = 0 THEN Some(EmptyLevelState) ELSE None]
    /\ populated = [l \in Levels |-> IF l <= 1 THEN 1 ELSE 0]

SpecMid == InitMid /\ [][Next]_vars

\* The second floor again, with the player in the far corner of the first
\* room: the monster in the doorway of the second room perceives the player,
\* the one in the opposite corner does not.  Both are ready to act.
InitRoam ==
    /\ rng_family = 0
    /\ maps = MidMaps
    /\ current_level = 1
    /\ \E py \in {2, 3} :
        player = [MidPlayer(30, 0, <<new_lightning_scroll>>) EXCEPT !.x = 2, !.y = py]
    /\ monsters = <<[new_monster(8, 3) EXCEPT !.last_move = MidStart - 5],
                    [new_monster(11, 5) EXCEPT !.last_move = MidStart - 5]>>
    /\ ground_items = <<>>
    /\ level_states = <<EmptyLevelState>>
    /\ combat_log = <<"Descended to level 2">>
    /\ current_time = MidStart
    /\ pc = "input"
    /\ requested = None
    /\ returned = None
    /\ locals = None
    /\ left_behind = [l \in Levels |-> IF l = 0 THEN Some(EmptyLevelState) ELSE None]
    /\ populated = [l \in Levels |-> IF l <= 1 THEN 1 ELSE 0]

SpecRoam == InitRoam /\ [][Next]_vars

\* The second floor once more, with the player back on its up stairs and a
\* monster on either side: the one to the east has been hit three times, and
\* the monsters last acted four or five tenths of a second ago.
InitTick ==
    /\ rng_family = 0
    /\ maps = MidMaps
    /\ current_level = 1
    /\ player = [MidPlayer(30, 0, <<>>) EXCEPT !.x = 3, !.y = 3]
    /\ \E last_move \in {MidStart - 5, MidStart - 4} :
        monsters = <<MidMonster(4, 3, last_move), MidMonster(2, 15, last_move)>>
    /\ ground_items = <<>>
    /\ level_states = <<EmptyLevelState>>
    /\ combat_log = <<"Descended to level 2">>
    /\ current_time = MidStart
    /\ pc = "input"
    /\ requested = None
    /\ returned = None
    /\ locals = None
    /\ left_behind = [l \in Levels |-> IF l = 0 THEN Some(EmptyLevelState) ELSE None]
    /\ populated = [l \in Levels |-> IF l <= 1 THEN 1 ELSE 0]

SpecTick == InitTick /\ [][Next]_vars

\* The second floor with the player, one or two hits from death, on its up
\* stairs between two unhurt monsters that come off cooldown one tenth of a
\* second apart.
InitDying ==
    /\ rng_family = 0
    /\ maps = MidMaps
    /\ current_level = 1
    /\ \E hp \in {1, 2} :
        player = [MidPlayer(hp, 0, <<new_health_potion>>) EXCEPT !.x = 3, !.y = 3]
    /\ monsters = <<MidMonster(4, 15, MidStart - 5), MidMonster(2, 15, MidStart - 4)>>
    /\ ground_items = <<[x |-> 3, y |-> 4, item |-> new_sword]>>
    /\ level_states = <<EmptyLevelState>>
    /\ combat_log = <<"Descended to level 2">>
    /\ current_time = MidStart
    /\ pc = "input"
    /\ requested = None
    /\ returned = None
    /\ locals = None
    /\ left_behind = [l \in Levels |-> IF l = 0 THEN Some(EmptyLevelState) ELSE None]
    /\ populated = [l \in Levels |-> IF l <= 1 THEN 1 ELSE 0]

SpecDying == InitDying /\ [][Next]_vars

\* ---------------------------------------------------------- Map::find_path
\* Map::find_path followed one iteration of its while loop at a time, for a
\* monster at `start` seeking the player at `goal` on a grid whose walls are
\* any of WallCandidates.
WallCandidates == {<<3, 1>>, <<0, 2>>, <<2, 2>>, <<4, 2>>}

PathStart == <<0, 0>>

PathGrid(walls) ==
    [tiles |-> [c \in (0 .. PathWidth - 1) \X (0 .. PathHeight - 1) |->
                    IF c \in walls THEN "Wall" ELSE "Floor"],
     width |-> PathWidth, height |-> PathHeight]

Node(position, g_cost, f_cost, parent) ==
    [position |-> position, g_cost |-> g_cost, f_cost |-> f_cost, parent |-> parent]

PathGoal == <<player.x, player.y>>

InitPath ==
    /\ rng_family = 0
    /\ \E walls \in SUBSET WallCandidates,
          goal \in ((0 .. PathWidth - 1) \X (0 .. PathHeight - 1)) \ {PathStart} :
        /\ goal \notin walls
        /\ maps = <<PathGrid(walls)>>
        /\ player = [new_player EXCEPT !.x = goal[1], !.y = goal[2]]
        /\ locals = [open_set |-> {Node(PathStart, 0, manhattan_distance(PathStart, goal), None)},
                     closed_set |-> {}]
    /\ current_level = 0
    /\ monsters = <<new_monster(PathStart[1], PathStart[2])>>
    /\ ground_items = <<>>
    /\ level_states = <<>>
    /\ combat_log = <<>>
    /\ current_time = 0
    /\ pc = "find_path"
    /\ requested = None
    /\ left_behind = [l \in Levels |-> None]
    /\ populated = [l \in Levels |-> IF l = 0 THEN 1 ELSE 0]
    /\ returned = None

\* find_path called with any start and any goal, the start itself and cells
\* that are walls included, on grids that may wall the start in.
AnyWallCandidates == {<<1, 0>>, <<0, 1>>, <<2, 1>>}

AnyStarts == {PathStart, <<2, 1>>}

AnyGrid(walls) ==
    [tiles |-> [c \in (0 .. AnyWidth - 1) \X (0 .. AnyHeight - 1) |->
                    IF c \in walls THEN "Wall" ELSE "Floor"],
     width |-> AnyWidth, height |-> AnyHeight]

InitPathAny ==
    /\ rng_family = 0
    /\ \E walls \in SUBSET AnyWallCandidates, start \in AnyStarts,
          goal \in (0 .. AnyWidth - 1) \X (0 .. AnyHeight - 1) :
        /\ maps = <<AnyGrid(walls)>>
        /\ player = [new_player EXCEPT !.x = goal[1], !.y = goal[2]]
        /\ monsters = <<new_monster(start[1], start[2])>>
        /\ locals = [open_set |-> {Node(start, 0, manhattan_distance(start, goal), None)},
                     closed_set |-> {}]
    /\ current_level = 0
    /\ ground_items = <<>>
    /\ level_states = <<>>
    /\ combat_log = <<>>
    /\ current_time = 0
    /\ pc = "find_path"
    /\ requested = None
    /\ left_behind = [l \in Levels |-> None]
    /\ populated = [l \in Levels |-> IF l = 0 THEN 1 ELSE 0]
    /\ returned = None

\* A neighbour loop without the is_walkable test.
PushedThroughWalls(current, closed) ==
    {Node(next_pos, current.g_cost + 1,
          current.g_cost + 1 + manhattan_distance(next_pos, PathGoal),
          Some(current.position))
     : next_pos \in {n \in Neighbors(current.position) :
                        /\ n \in DOMAIN current_map.tiles
                        /\ \A c \in closed : c.position # n}}

\* The nodes open_set.pop() can hand out: BinaryHeap with the reversed
\* ordering of Node pops a node of least f_cost, and which one among equals
\* is not fixed by its contract.  The heap holds equal nodes more than once;
\* popping a second copy changes nothing (closed_set has it already and each
\* child it pushes is either skipped as closed or equal to one still in the
\* heap), so open_set holds the distinct nodes.
Poppable == {n \in locals.open_set : \A o \in locals.open_set : n.f_cost <= o.f_cost}

\* The nodes pushed by the neighbour loop (lines 956-981) for `current`.
Pushed(current, closed) ==
    {Node(next_pos, current.g_cost + 1,
          current.g_cost + 1 + manhattan_distance(next_pos, PathGoal),
          Some(current.position))
     : next_pos \in {n \in Neighbors(current.position) :
                        /\ is_walkable(current_map, n[1], n[2])
                        /\ \A c \in closed : c.position # n}}

\* The positions the reconstruction loop (lines 936-947) pushes from `node`
\* on: closed_set.iter().find() hands out any node of closed_set at the
\* parent's position, as the HashSet iterates in an order of its own.  Every
\* lookup is for a position first closed before the one looked up from, so
\* no position is looked up twice.
RECURSIVE PathsBack(_, _)
PathsBack(node, closed) ==
    IF ~IsSome(node.parent) THEN {<<node.position>>}
    ELSE LET found == {n \in closed : n.position = Unwrap(node.parent)}
         IN  IF found = {} THEN {<<node.position>>}
             ELSE {<<node.position>> \o rest
                   : rest \in UNION {PathsBack(n, closed) : n \in found}}

Reverse(s) == [k \in 1 .. Len(s) |-> s[Len(s) + 1 - k]]

\* An iteration that pops a node off the goal, closes and expands it.
FindPathExpand ==
    /\ pc = "find_path"
    /\ \E current \in Poppable :
        /\ current.position # PathGoal
        /\ locals' = [closed_set |-> locals.closed_set \cup {current},
                      open_set |-> (locals.open_set \ {current})
                                    \cup Pushed(current, locals.closed_set \cup {current})]
    /\ UNCHANGED <<returned, rng_family, maps, current_level, player, monsters, ground_items,
                   level_states, combat_log, current_time, pc, requested, left_behind,
                   populated>>

\* The iteration that pops a node at the goal and returns the path.
FindPathFound ==
    /\ pc = "find_path"
    /\ \E current \in Poppable :
        /\ current.position = PathGoal
        /\ locals' = [locals EXCEPT !.open_set = @ \ {current}]
        /\ \E path \in PathsBack(current, locals.closed_set) : returned' = Some(Reverse(path))
    /\ pc' = "returned"
    /\ UNCHANGED <<rng_family, maps, current_level, player, monsters,
                   ground_items, level_states, combat_log, current_time, requested,
                   left_behind, populated>>

\* The heap is empty: find_path returns None.
FindPathExhausted ==
    /\ pc = "find_path"
    /\ locals.open_set = {}
    /\ returned' = None
    /\ pc' = "returned"
    /\ UNCHANGED <<locals, rng_family, maps, current_level, player, monsters,
                   ground_items, level_states, combat_log, current_time, requested,
                   left_behind, populated>>

NextPath == FindPathExpand \/ FindPathFound \/ FindPathExhausted

SpecPath == InitPath /\ [][NextPath]_vars

\* The while loop of find_path keeps running until it returns: every
\* iteration that can be taken is taken.
SpecPathAny == InitPathAny /\ [][NextPath]_vars /\ WF_vars(NextPath)

\* ------------------------------------- generate_dungeon_with_stairs_seeded
\* Map::new followed one iteration of the room loop at a time, for whatever
\* the random source hands out: locals.i is the iteration, locals.temp_rooms
\* the accepted rooms.
RoomSizes == MinRoomSize .. MaxRoomSize - 1

\* The rectangles and coins an iteration can draw on a width x height grid:
\* x from 1 .. width - w - 2 and y from 1 .. height - h - 2.
Candidates(width, height) ==
    UNION {{Cand(x, y, w, h, coin) : x \in 1 .. width - w - 2, y \in 1 .. height - h - 2,
                                     coin \in BOOLEAN}
           : w \in RoomSizes, h \in RoomSizes}

InitRooms ==
    /\ rng_family = 0
    /\ \E level \in {0, 1}, stairs_up_pos \in {None, Some(<<3, 3>>)} :
        maps = <<[width |-> MapWidth, height |-> MapHeight,
                  tiles |-> [c \in (0 .. MapWidth - 1) \X (0 .. MapHeight - 1) |-> "Wall"],
                  rooms |-> <<>>, level |-> level, up_stairs |-> stairs_up_pos,
                  down_stairs |-> None]>>
    /\ current_level = 0
    /\ player = new_player
    /\ monsters = <<>>
    /\ ground_items = <<>>
    /\ level_states = <<>>
    /\ combat_log = <<>>
    /\ current_time = 0
    /\ pc = "room_loop"
    /\ requested = None
    /\ left_behind = [l \in Levels |-> None]
    /\ populated = [l \in Levels |-> 0]
    /\ returned = None
    /\ locals = [temp_rooms |-> <<>>, i |-> 1]

\* One iteration of the room loop with a candidate drawn from the ranges.
RoomLoopIteration ==
    /\ pc = "room_loop"
    /\ locals.i <= MaxRooms
    /\ \E c \in Candidates(current_map.width, current_map.height) :
        LET r == PlaceRoom(c, locals.temp_rooms, current_map.tiles)
        IN  /\ maps' = <<[current_map EXCEPT !.tiles = r.tiles]>>
            /\ locals' = [temp_rooms |-> r.rooms, i |-> locals.i + 1]
    /\ UNCHANGED <<returned, rng_family, current_level, player, monsters, ground_items,
                   level_states, combat_log, current_time, pc, requested, left_behind,
                   populated>>

\* gen_range panics on an empty range: a width or height drawn leaves no
\* place for x or y on this grid.
RoomLoopPanic ==
    /\ pc = "room_loop"
    /\ locals.i <= MaxRooms
    /\ \E w \in RoomSizes, h \in RoomSizes :
        \/ current_map.width - w - 1 <= 1
        \/ current_map.height - h - 1 <= 1
    /\ pc' = "panicked"
    /\ UNCHANGED <<locals, returned, rng_family, maps, current_level, player, monsters,
                   ground_items, level_states, combat_log, current_time, requested,
                   left_behind, populated>>

\* After the loop: self.rooms = vec![temp_rooms] and the stairs.
RoomLoopDone ==
    /\ pc = "room_loop"
    /\ locals.i > MaxRooms
    /\ maps' = <<PlaceStairs(current_map.width, current_map.height, current_map.level,
                             current_map.up_stairs, <<locals.temp_rooms>>, current_map.tiles)>>
    /\ pc' = "generated"
    /\ UNCHANGED <<locals, returned, rng_family, current_level, player, monsters,
                   ground_items, level_states, combat_log, current_time, requested,
                   left_behind, populated>>

NextRooms == RoomLoopIteration \/ RoomLoopPanic \/ RoomLoopDone

SpecRooms == InitRooms /\ [][NextRooms]_vars

\* ------------------------------------------------ GameState::add_log_message
\* add_log_message called over and over on the log of a new game, with the
\* messages the program passes it; locals.added holds them in call order.
LogMessages == {"Descended to level 2", "Ascended to level 1", "Picked up Sword!"}

InitLog ==
    /\ rng_family = 0
    /\ maps = <<MapNew(0, MapWidth, MapHeight, 0, None)>>
    /\ current_level = 0
    /\ player = new_player
    /\ monsters = <<>>
    /\ ground_items = <<>>
    /\ level_states = <<>>
    /\ combat_log = <<>>
    /\ current_time = 0
    /\ pc = "log"
    /\ requested = None
    /\ left_behind = [l \in Levels |-> None]
    /\ populated = [l \in Levels |-> IF l = 0 THEN 1 ELSE 0]
    /\ returned = None
    /\ locals = [added |-> <<>>]

AddLogMessage ==
    /\ pc = "log"
    /\ Len(locals.added) < MaxMessages
    /\ \E message \in LogMessages :
        /\ combat_log' = add_log_message(combat_log, message)
        /\ locals' = [added |-> Append(locals.added, message)]
    /\ UNCHANGED <<returned, rng_family, maps, current_level, player, monsters,
                   ground_items, level_states, current_time, pc, requested, left_behind,
                   populated>>

SpecLog == InitLog /\ [][AddLogMessage]_vars

\* ------------------------------------------------------- a deep session
\* The floors a player who went straight down holds on reaching floor n.
RECURSIVE GrowMaps(_, _, _)
GrowMaps(family, ms, n) ==
    IF Len(ms) > n THEN ms
    ELSE CHOOSE done \in {GrowMaps(family, grown, n)
                          : grown \in {change_level(family, ms, Len(ms) - 1, Len(ms)).maps}}
         : TRUE

\* A session picked up on the floor above the deepest one, every floor above
\* it cleared, with the player on its down stairs and ready to act.
InitDeep ==
    /\ rng_family \in 0 .. MaxFamily
    /\ maps = GrowMaps(rng_family, <<MapNew(rng_family, MapWidth, MapHeight, 0, None)>>,
                       DeepestLevel - 1)
    /\ current_level = DeepestLevel - 1
    /\ player = [MidPlayer(30, 0, <<>>) EXCEPT
                    !.x = Unwrap(maps[DeepestLevel].down_stairs)[1],
                    !.y = Unwrap(maps[DeepestLevel].down_stairs)[2]]
    /\ monsters = <<>>
    /\ ground_items = <<>>
    /\ level_states = [k \in 1 .. DeepestLevel - 1 |-> EmptyLevelState]
    /\ combat_log = <<"Descended to level 9">>
    /\ current_time = MidStart
    /\ pc = "input"
    /\ requested = None
    /\ left_behind = [l \in Levels |-> IF l < DeepestLevel - 1 THEN Some(EmptyLevelState) ELSE None]
    /\ populated = [l \in Levels |-> IF l < DeepestLevel THEN 1 ELSE 0]
    /\ returned = None
    /\ locals = None

SpecDeep == InitDeep /\ [][NextRequest]_vars

\* The deep session played through the game loop alone.
SpecDescent == InitDeep /\ [][Next]_vars

\* ------------------------------------- GameState::initialize_current_level
\* initialize_current_level followed one room at a time on a floor that has
\* just been generated, for whatever thread_rng hands out: locals.phase is
\* the loop the call is in, locals.k the next room of that loop and
\* locals.new_monsters the monsters pushed so far.
MonsterCounts == 0 .. 2

ItemKinds == 0 .. 3

InitPopulate ==
    /\ rng_family \in 0 .. MaxFamily
    /\ \E level \in {0, 1} :
        /\ maps = GrowMaps(rng_family, <<MapNew(rng_family, MapWidth, MapHeight, 0, None)>>, level)
        /\ current_level = level
        /\ player = IF level = 0 THEN new_player
                    ELSE [new_player EXCEPT !.x = Unwrap(maps[level + 1].up_stairs)[1],
                                            !.y = Unwrap(maps[level + 1].up_stairs)[2]]
        /\ level_states = [k \in 1 .. level |-> EmptyLevelState]
        /\ left_behind = [l \in Levels |-> IF l < level THEN Some(EmptyLevelState) ELSE None]
        /\ populated = [l \in Levels |-> IF l < level THEN 1 ELSE 0]
    /\ monsters = <<>>
    /\ ground_items = <<>>
    /\ combat_log = <<>>
    /\ current_time = 0
    /\ pc = "initialize"
    /\ requested = None
    /\ returned = None
    /\ locals = [phase |-> "player", k |-> 1, new_monsters |-> <<>>]

\* Lines 1131-1137: the player goes to the center of the first room.
PlacePlayer ==
    /\ pc = "initialize"
    /\ locals.phase = "player"
    /\ player' = IF current_map.rooms # <<>> /\ current_map.rooms[1] # <<>>
                 THEN [player EXCEPT !.x = center(current_map.rooms[1][1])[1],
                                     !.y = center(current_map.rooms[1][1])[2]]
                 ELSE player
    /\ locals' = [locals EXCEPT !.phase = "monsters"]
    /\ UNCHANGED <<returned, rng_family, maps, current_level, monsters, ground_items,
                   level_states, combat_log, current_time, pc, requested, left_behind,
                   populated>>

\* Lines 1143-1153: one room of the loop over every row without its first room.
SpawnRoomMonsters ==
    /\ pc = "initialize"
    /\ locals.phase = "monsters"
    /\ locals.k <= Len(SkipFirstRooms(current_map.rooms))
    /\ \E num_monsters \in MonsterCounts :
        \E s \in CellSeqs(num_monsters, random_position(SkipFirstRooms(current_map.rooms)[locals.k])) :
            LET kept == SelectSeq(s, LAMBDA c : is_walkable(current_map, c[1], c[2]))
            IN  locals' = [locals EXCEPT
                    !.k = @ + 1,
                    !.new_monsters = @ \o [j \in 1 .. Len(kept) |-> new_monster(kept[j][1], kept[j][2])]]
    /\ UNCHANGED <<returned, rng_family, maps, current_level, player, monsters, ground_items,
                   level_states, combat_log, current_time, pc, requested, left_behind,
                   populated>>

\* Lines 1155-1161: self.monsters = new_monsters, then ground_items.clear().
AssignMonsters ==
    /\ pc = "initialize"
    /\ locals.phase = "monsters"
    /\ locals.k > Len(SkipFirstRooms(current_map.rooms))
    /\ monsters' = locals.new_monsters
    /\ ground_items' = <<>>
    /\ locals' = [locals EXCEPT !.phase = "items", !.k = 1]
    /\ UNCHANGED <<returned, rng_family, maps, current_level, player, level_states,
                   combat_log, current_time, pc, requested, left_behind, populated>>

\* Lines 1165-1177: one room of the loop of spawn_items_for_current_level.
SpawnRoomItem ==
    /\ pc = "initialize"
    /\ locals.phase = "items"
    /\ locals.k <= Len(AllRooms(current_map.rooms))
    /\ \E roll \in BOOLEAN :
        IF roll
        THEN \E c \in random_position(AllRooms(current_map.rooms)[locals.k]), d \in ItemKinds :
                ground_items' = Append(ground_items, [x |-> c[1], y |-> c[2], item |-> ItemOfDraw(d)])
        ELSE ground_items' = ground_items
    /\ locals' = [locals EXCEPT !.k = @ + 1]
    /\ UNCHANGED <<returned, rng_family, maps, current_level, player, monsters, level_states,
                   combat_log, current_time, pc, requested, left_behind, populated>>

\* initialize_current_level returns.
PopulateDone ==
    /\ pc = "initialize"
    /\ locals.phase = "items"
    /\ locals.k > Len(AllRooms(current_map.rooms))
    /\ pc' = "populated"
    /\ populated' = [populated EXCEPT ![current_level] = @ + 1]
    /\ UNCHANGED <<locals, returned, rng_family, maps, current_level, player, monsters,
                   ground_items, level_states, combat_log, current_time, requested,
                   left_behind>>

NextPopulate ==
    PlacePlayer \/ SpawnRoomMonsters \/ AssignMonsters \/ SpawnRoomItem \/ PopulateDone

SpecPopulate == InitPopulate /\ [][NextPopulate]_vars

\* ------------------------------------------------------------------ pickup
\* check_and_pickup_items and pick_up_item applied over and over in the first
\* room of the first floor, by a player whose inventory is full or has one or
\* two places left, with up to MaxGround items on the player's cell and the
\* cell next to it.
PickupCells == {<<3, 3>>, <<4, 3>>}

PickupItems == {new_sword, new_health_potion}

InitPickup ==
    /\ rng_family = 1
    /\ maps = <<MapNew(rng_family, MapWidth, MapHeight, 0, None)>>
    /\ current_level = 0
    /\ \E free \in 0 .. 2 :
        player = [new_player EXCEPT
                    !.x = 3, !.y = 3,
                    !.inventory = Some([InventoryNew(InventoryCapacity) EXCEPT
                        !.items = [k \in 1 .. InventoryCapacity - free |-> new_lightning_scroll]])]
    /\ monsters = <<>>
    /\ \E n \in 0 .. MaxGround :
        \E cells \in [1 .. n -> PickupCells], items \in [1 .. n -> PickupItems] :
            ground_items = [k \in 1 .. n |-> [x |-> cells[k][1], y |-> cells[k][2], item |-> items[k]]]
    /\ level_states = <<>>
    /\ combat_log = <<>>
    /\ current_time = 0
    /\ pc = "pickup"
    /\ requested = None
    /\ left_behind = [l \in Levels |-> None]
    /\ populated = [l \in Levels |-> IF l = 0 THEN 1 ELSE 0]
    /\ returned = None
    /\ locals = None

CheckAndPickupItems ==
    /\ pc = "pickup"
    /\ LET r == check_and_pickup_items(player, ground_items, combat_log)
       IN  /\ player' = r.player
           /\ ground_items' = r.ground_items
           /\ combat_log' = r.combat_log
    /\ returned' = Some([call |-> "check_and_pickup_items", result |-> None])
    /\ UNCHANGED <<locals, rng_family, maps, current_level, monsters, level_states,
                   current_time, pc, requested, left_behind, populated>>

PickUpItem ==
    /\ pc = "pickup"
    /\ \E c \in PickupCells :
        LET r == pick_up_item(player, ground_items, c[1], c[2])
        IN  /\ player' = r.player
            /\ ground_items' = r.ground_items
            /\ returned' = Some([call |-> "pick_up_item", result |-> r.result])
    /\ UNCHANGED <<locals, rng_family, maps, current_level, monsters, level_states,
                   combat_log, current_time, pc, requested, left_behind, populated>>

NextPickup == CheckAndPickupItems \/ PickUpItem

SpecPickup == InitPickup /\ [][NextPickup]_vars

\* Inventory::use_item called between two ticks on the player's inventory,
\* for the player, with any index up to the length of the item list.
UseItem ==
    /\ pc = "input"
    /\ IsSome(player.inventory)
    /\ \E index \in 0 .. Len(Unwrap(player.inventory).items) :
        LET r == use_item(Unwrap(player.inventory), index, player, monsters)
        IN  /\ player' = [r.entity EXCEPT !.inventory = Some(r.inv)]
            /\ monsters' = r.monsters
    /\ UNCHANGED <<locals, returned, rng_family, maps, current_level, ground_items,
                   level_states, combat_log, current_time, pc, requested, left_behind,
                   populated>>

NextItems == Next \/ UseItem

SpecItems == InitMid /\ [][NextItems]_vars

\* The same call with the Result it returns kept in `returned`.
UseItemResult ==
    /\ pc = "input"
    /\ IsSome(player.inventory)
    /\ \E index \in 0 .. Len(Unwrap(player.inventory).items) :
        LET r == use_item(Unwrap(player.inventory), index, player, monsters)
        IN  /\ player' = [r.entity EXCEPT !.inventory = Some(r.inv)]
            /\ monsters' = r.monsters
            /\ returned' = Some([call |-> "use_item", ok |-> r.ok, msg |-> r.msg])
    /\ UNCHANGED <<locals, rng_family, maps, current_level, ground_items, level_states,
                   combat_log, current_time, pc, requested, left_behind, populated>>

\* The three index-taking operations of Inventory called on the player's
\* inventory, which holds one item of every kind; a monster stands next to
\* the player.
InitInventory ==
    /\ rng_family = 0
    /\ maps = MidMaps
    /\ current_level = 1
    /\ \E hp \in {25, 30}, weapon \in {None, Some(new_sword)} :
        player = [MidPlayer(hp, 0, <<new_sword, new_armor, new_health_potion,
                                     new_lightning_scroll, teleport_scroll>>)
                    EXCEPT !.inventory[1].equipped_weapon = weapon]
    /\ monsters = <<MidMonster(7, 15, MidStart - 4)>>
    /\ ground_items = <<>>
    /\ level_states = <<EmptyLevelState>>
    /\ combat_log = <<"Descended to level 2">>
    /\ current_time = MidStart
    /\ pc = "input"
    /\ requested = None
    /\ left_behind = [l \in Levels |-> IF l = 0 THEN Some(EmptyLevelState) ELSE None]
    /\ populated = [l \in Levels |-> IF l <= 1 THEN 1 ELSE 0]
    /\ returned = None
    /\ locals = None

EquipItem ==
    /\ pc = "input"
    /\ IsSome(player.inventory)
    /\ \E index \in 0 .. Len(Unwrap(player.inventory).items) :
        LET r == equip_item(Unwrap(player.inventory), index)
        IN  /\ player' = [player EXCEPT !.inventory = Some(r.inv)]
            /\ returned' = Some([call |-> "equip_item", ok |-> r.ok, msg |-> r.msg])
    /\ UNCHANGED <<locals, rng_family, maps, current_level, monsters, ground_items,
                   level_states, combat_log, current_time, pc, requested, left_behind,
                   populated>>

RemoveItem ==
    /\ pc = "input"
    /\ IsSome(player.inventory)
    /\ \E index \in 0 .. Len(Unwrap(player.inventory).items) :
        LET r == remove_item(Unwrap(player.inventory), index)
        IN  /\ player' = [player EXCEPT !.inventory = Some(r.inv)]
            /\ returned' = Some([call |-> "remove_item", ok |-> IsSome(r.item), item |-> r.item])
    /\ UNCHANGED <<locals, rng_family, maps, current_level, monsters, ground_items,
                   level_states, combat_log, current_time, pc, requested, left_behind,
                   populated>>

NextInventory == UseItemResult \/ EquipItem \/ RemoveItem

SpecInventory == InitInventory /\ [][NextInventory]_vars

\* The same calls in the session whose monsters are six cells and more from
\* the player.
NextScroll == Next \/ UseItemResult

SpecScroll == InitRoam /\ [][NextScroll]_vars

\* ------------------------------------------------------------ Entity::attack
\* Entity::attack on its own: a player and a monster whose attack and
\* defense are drawn from Stats, and one attack in either direction.
Stats == (-MaxStat) .. MaxStat

InitAttack ==
    /\ rng_family = 0
    /\ maps = <<MapNew(0, MapWidth, MapHeight, 0, None)>>
    /\ current_level = 0
    /\ \E a \in Stats, d \in Stats, ma \in Stats, md \in Stats :
        /\ player = [new_player EXCEPT !.x = 3, !.y = 3, !.attack = a, !.defense = d]
        /\ monsters = <<[new_monster(4, 3) EXCEPT !.attack = ma, !.defense = md]>>
    /\ ground_items = <<>>
    /\ level_states = <<>>
    /\ combat_log = <<>>
    /\ current_time = 0
    /\ pc = "duel"
    /\ requested = None
    /\ returned = None
    /\ locals = None
    /\ left_behind = [l \in Levels |-> None]
    /\ populated = [l \in Levels |-> IF l = 0 THEN 1 ELSE 0]

PlayerAttacks ==
    /\ pc = "duel"
    /\ LET r == Entity_attack(player, monsters[1])
       IN  /\ player' = r.self
           /\ monsters' = <<r.target>>
           /\ combat_log' = AddLogMessages(combat_log, r.messages)
    /\ pc' = "struck"
    /\ UNCHANGED <<locals, returned, rng_family, maps, current_level, ground_items, level_states,
                   current_time, requested, left_behind, populated>>

MonsterAttacks ==
    /\ pc = "duel"
    /\ LET r == Entity_attack(monsters[1], player)
       IN  /\ monsters' = <<r.self>>
           /\ player' = r.target
    /\ pc' = "struck"
    /\ UNCHANGED <<locals, returned, rng_family, maps, current_level, ground_items, level_states,
                   combat_log, current_time, requested, left_behind, populated>>

\* The progression state after n level-ups that left no surplus.
RECURSIVE LevelSystemAfter(_)
LevelSystemAfter(n) ==
    IF n = 0 THEN LevelSystemNew
    ELSE LevelSystem_level_up(
            [LevelSystemAfter(n - 1) EXCEPT
                !.current_xp = LevelSystemAfter(n - 1).xp_to_next_level])

\* The player after n level-ups.
RECURSIVE PlayerAfter(_)
PlayerAfter(n) == IF n = 0 THEN new_player ELSE Entity_level_up(PlayerAfter(n - 1))

\* LevelSystem::add_xp and Entity::level_up on their own: a player whose
\* progression state is drawn, next to a monster one hit from death or not.
InitLevel ==
    /\ rng_family = 0
    /\ maps = <<MapNew(0, MapWidth, MapHeight, 0, None)>>
    /\ current_level = 0
    /\ \E n \in 0 .. MaxLevelUps, hp \in {3, 15} :
        \E xp \in 0 .. LevelSystemAfter(n).xp_to_next_level - 1 :
            /\ player = [PlayerAfter(n) EXCEPT !.x = 3, !.y = 3,
                            !.level_system = Some([LevelSystemAfter(n) EXCEPT !.current_xp = xp])]
            /\ monsters = <<[new_monster(4, 3) EXCEPT !.hp = hp]>>
    /\ ground_items = <<>>
    /\ level_states = <<>>
    /\ combat_log = <<>>
    /\ current_time = 0
    /\ pc = "duel"
    /\ requested = None
    /\ returned = None
    /\ locals = None
    /\ left_behind = [l \in Levels |-> None]
    /\ populated = [l \in Levels |-> IF l = 0 THEN 1 ELSE 0]

NextAttack == PlayerAttacks \/ MonsterAttacks

SpecAttack == InitAttack /\ [][NextAttack]_vars

SpecLevel == InitLevel /\ [][NextAttack]_vars

\* A new player that attacks one monster after the other, each either one
\* hit from death or unhurt; locals.attacks counts the attacks made.
InitKills ==
    /\ rng_family = 0
    /\ maps = <<MapNew(0, MapWidth, MapHeight, 0, None)>>
    /\ current_level = 0
    /\ player = [new_player EXCEPT !.x = 3, !.y = 3]
    /\ monsters = <<>>
    /\ ground_items = <<>>
    /\ level_states = <<>>
    /\ combat_log = <<>>
    /\ current_time = 0
    /\ pc = "kills"
    /\ requested = None
    /\ returned = None
    /\ locals = [attacks |-> 0]
    /\ left_behind = [l \in Levels |-> None]
    /\ populated = [l \in Levels |-> IF l = 0 THEN 1 ELSE 0]

\* player.attack(monster) on the monster the player has met.
AttackNextMonster ==
    /\ pc = "kills"
    /\ locals.attacks < MaxKills
    /\ \E hp \in {3, 15} :
        LET r == Entity_attack(player, [new_monster(4, 3) EXCEPT !.hp = hp])
        IN  /\ player' = r.self
            /\ monsters' = <<r.target>>
            /\ combat_log' = AddLogMessages(combat_log, r.messages)
    /\ locals' = [attacks |-> locals.attacks + 1]
    /\ UNCHANGED <<returned, rng_family, maps, current_level, ground_items, level_states,
                   current_time, pc, requested, left_behind, populated>>

SpecKills == InitKills /\ [][AttackNextMonster]_vars

\* ---------------------------------------------------------------- Inventory
\* An inventory made by Inventory::new with a capacity of up to MaxCarry, on
\* which add_item, remove_item, equip_item and use_item are called in any
\* order; locals.adds counts the calls of add_item.
InitCarry ==
    /\ rng_family = 0
    /\ maps = MidMaps
    /\ current_level = 1
    /\ \E capacity \in 0 .. MaxCarry :
        player = [MidPlayer(25, 0, <<>>) EXCEPT !.inventory = Some(InventoryNew(capacity))]
    /\ monsters = <<MidMonster(7, 15, MidStart - 4)>>
    /\ ground_items = <<>>
    /\ level_states = <<EmptyLevelState>>
    /\ combat_log = <<"Descended to level 2">>
    /\ current_time = MidStart
    /\ pc = "input"
    /\ requested = None
    /\ left_behind = [l \in Levels |-> IF l = 0 THEN Some(EmptyLevelState) ELSE None]
    /\ populated = [l \in Levels |-> IF l <= 1 THEN 1 ELSE 0]
    /\ returned = None
    /\ locals = [adds |-> 0]

AddItem ==
    /\ pc = "input"
    /\ IsSome(player.inventory)
    /\ locals.adds < MaxAdds
    /\ \E item \in {new_sword, new_armor, new_health_potion, new_lightning_scroll,
                     teleport_scroll} :
        LET r == add_item(Unwrap(player.inventory), item)
        IN  /\ player' = [player EXCEPT !.inventory = Some(r.inv)]
            /\ returned' = Some([call |-> "add_item", ok |-> r.ok, msg |-> r.msg])
    /\ locals' = [adds |-> locals.adds + 1]
    /\ UNCHANGED <<rng_family, maps, current_level, monsters, ground_items, level_states,
                   combat_log, current_time, pc, requested, left_behind, populated>>

NextCarry == AddItem \/ RemoveItem \/ EquipItem \/ UseItemResult

SpecCarry == InitCarry /\ [][NextCarry]_vars

\* ------------------------------------------------------------ properties
\* A step of the level-transition check that moved the player to another floor.
ChangedFloor == pc = "transition" /\ current_level' # current_level

\* The state right after the transition check entered the floor it asked for.
JustEntered == pc = "monsters" /\ requested = Some(current_level)

\* C1: when the player re-enters a floor it left before, the live monster
\* list and the ground-item list are exactly the lists that were live on
\* that floor at the moment of departure.
RoundTrip ==
    [][ChangedFloor /\ current_level' \in Levels /\ IsSome(left_behind[current_level'])
        => /\ monsters' = Unwrap(left_behind[current_level']).monsters
           /\ ground_items' = Unwrap(left_behind[current_level']).ground_items]_vars

\* A floor with monsters and items on it was left and has just been re-entered.
RoundTripReached ==
    /\ JustEntered
    /\ IsSome(left_behind[current_level])
    /\ monsters # <<>>
    /\ ground_items # <<>>

\* C2: a generated floor is never regenerated or modified, maps only grows
\* by appending, and maps[i].level = i for every generated floor.
MapsCached ==
    /\ [][/\ Len(maps') >= Len(maps)
          /\ \A i \in 1 .. Len(maps) : maps'[i] = maps[i]]_vars
    /\ [](\A i \in 1 .. Len(maps) : maps[i].level = i - 1)

\* A floor below the first that maps already held has just been entered again.
CachedFloorReentered ==
    /\ JustEntered
    /\ current_level >= 1
    /\ IsSome(left_behind[current_level])
    /\ Len(maps) >= 3

\* C3: the up stairs of every generated floor k > 0 are at the down stairs
\* of floor k - 1.
StairsAligned ==
    \A k \in 2 .. Len(maps) :
        /\ IsSome(maps[k].up_stairs)
        /\ maps[k].up_stairs = maps[k - 1].down_stairs

\* A floor whose inherited up stairs are not where its own first room is.
InheritedStairsElsewhere ==
    /\ Len(maps) >= 2
    /\ maps[2].rooms[1] # <<>>
    /\ maps[2].up_stairs = maps[1].down_stairs
    /\ Unwrap(maps[2].up_stairs) # center(maps[2].rooms[1][1])

\* C4: a transition request to an index below 0 or at or above max_depth is
\* refused: change_level returns None and leaves current_level and maps as
\* they are, and the caller leaves the player's position, the monsters and
\* the ground items unchanged.
OutOfRangeRefused ==
    /\ [](\A t \in {-2, -1, MaxDepth, MaxDepth + 1} :
            change_level(rng_family, maps, current_level, t)
                = [spawn |-> None, maps |-> maps, current_level |-> current_level,
                   panic |-> FALSE])
    /\ [][pc = "transition" /\ IsSome(requested') /\ Unwrap(requested') \notin Levels
          => /\ current_level' = current_level
             /\ maps' = maps
             /\ player' = player
             /\ monsters' = monsters
             /\ ground_items' = ground_items]_vars

\* An out-of-range request was just made on a floor that holds items.
OutOfRangeRequested ==
    /\ pc = "monsters"
    /\ IsSome(requested)
    /\ Unwrap(requested) \notin Levels
    /\ ground_items # <<>>

\* C5: on a successful transition the player stands on the destination
\* floor's up stairs after descending and on its down stairs after
\* ascending, and current_level is the target index.
SpawnAtStairs ==
    [][ChangedFloor /\ current_level' \in Levels
        => /\ requested' = Some(current_level')
           /\ LET dest == maps'[current_level' + 1]
                  spawn == IF current_level' > current_level
                           THEN dest.up_stairs ELSE dest.down_stairs
              IN  /\ spawn = change_level(rng_family, maps, current_level, current_level').spawn
                  /\ Some(<<player'.x, player'.y>>) = spawn]_vars

\* The player has just descended and does not stand on the floor's up stairs.
ArrivedOffStairs ==
    /\ JustEntered
    /\ current_level >= 1
    /\ ~IsSome(left_behind[current_level])
    /\ Some(<<player.x, player.y>>) # current_map.up_stairs

\* C6: the first entry of a floor replaces the live lists by a freshly
\* spawned population, every later entry replaces them by the floor's saved
\* snapshot, and no floor is freshly populated twice.
PopulateOnce ==
    /\ [][ChangedFloor /\ current_level' \in Levels
          => IF IsSome(left_behind[current_level'])
             THEN /\ monsters' = level_states'[current_level' + 1].monsters
                  /\ ground_items' = level_states'[current_level' + 1].ground_items
                  /\ populated' = populated
             ELSE /\ \E fresh \in initialize_current_level(rng_family,
                                        maps'[current_level' + 1], player) :
                        /\ monsters' = fresh.monsters
                        /\ ground_items' = fresh.ground_items
                  /\ populated'[current_level'] = 1]_vars
    /\ [](\A l \in Levels : populated[l] <= 1)

\* The player came back from a floor with monsters to a floor without any.
ReturnedWithoutCarryOver ==
    /\ JustEntered
    /\ IsSome(left_behind[current_level])
    /\ monsters = <<>>
    /\ \E l \in Levels : /\ IsSome(left_behind[l])
                         /\ Unwrap(left_behind[l]).monsters # <<>>
                         /\ populated[l] = 1

\* The cooldown 1 / speed of an actor, in time units.
Cooldown(e) == TimeScale \div e.speed

\* C7: an actor moves or attacks at tick time t only if t - last_move is at
\* least 1 / speed, and doing so sets its last_move to t; so two consecutive
\* actions of an actor are at least 1 / speed apart.
CooldownGate ==
    [][/\ pc = "input" /\ (player' # player \/ monsters' # monsters \/ ground_items' # ground_items)
            => /\ player.hp > 0
               /\ current_time' - player.last_move >= Cooldown(player)
               /\ player'.last_move = current_time'
       /\ pc = "monsters"
            => /\ \A i \in 1 .. Len(monsters) :
                    monsters'[i] # monsters[i]
                        => /\ monsters[i].hp > 0
                           /\ current_time - monsters[i].last_move >= Cooldown(monsters[i])
                           /\ monsters'[i].last_move = current_time
               /\ player' # player
                    => \E i \in 1 .. Len(monsters) :
                            /\ monsters'[i].last_move = current_time
                            /\ current_time - monsters[i].last_move >= Cooldown(monsters[i])
       /\ pc \in {"input", "monsters"}
            => /\ player'.last_move # player.last_move
                    => player'.last_move - player.last_move >= Cooldown(player)
               /\ \A i \in 1 .. Len(monsters) :
                    monsters'[i].last_move # monsters[i].last_move
                        => monsters'[i].last_move - monsters[i].last_move >= Cooldown(monsters[i])]_vars

\* In one tick the player has acted, one monster has acted and another
\* monster, still on cooldown, has not.
GateOpenAndShut ==
    /\ pc = "purge"
    /\ player.last_move = current_time
    /\ \E i, j \in 1 .. Len(monsters) :
        /\ monsters[i].last_move = current_time
        /\ monsters[j].hp > 0
        /\ current_time - monsters[j].last_move \in 1 .. Cooldown(monsters[j]) - 1

\* C8: every actor, the player and every monster of the live list and of
\* the saved snapshots, has hp <= max_hp.
HpBounded ==
    /\ player.hp <= player.max_hp
    /\ \A i \in 1 .. Len(monsters) : monsters[i].hp <= monsters[i].max_hp
    /\ \A k \in 1 .. Len(level_states) :
        \A i \in 1 .. Len(level_states[k].monsters) :
            level_states[k].monsters[i].hp <= level_states[k].monsters[i].max_hp

\* The potion was drunk at full health and the scroll has struck a monster.
HealedAndStruck ==
    /\ player.hp = player.max_hp
    /\ Unwrap(player.inventory).items = <<>>
    /\ \E i \in 1 .. Len(monsters) : monsters[i].hp < -1

\* C9: after the purge no monster of the live list has hp <= 0, the purge
\* removes the monsters with hp <= 0 and no others, and a monster that dies
\* during a tick stays in the list until the purge.
PurgeAtEndOfTick ==
    /\ [](pc = "input" => \A i \in 1 .. Len(monsters) : monsters[i].hp > 0)
    /\ [][/\ pc = "purge" => monsters' = SelectSeq(monsters, LAMBDA m : m.hp > 0)
          /\ pc \in {"input", "monsters"} => Len(monsters') = Len(monsters)
          /\ pc = "transition" /\ current_level' = current_level
                => monsters' = monsters]_vars

\* A monster killed in this tick is in the list, next to a live one, as the
\* purge begins.
DeadAwaitingPurge ==
    /\ pc = "purge"
    /\ \E i, j \in 1 .. Len(monsters) : monsters[i].hp <= 0 /\ monsters[j].hp > 0

\* C10: Entity::attack lowers the defender's hp by exactly
\* max(1, attack - defense) and changes nothing else of the defender.
AttackExact ==
    [][pc = "duel"
        => IF monsters' # monsters
           THEN /\ monsters'[1].hp
                    = monsters[1].hp - Max(1, player.attack - monsters[1].defense)
                /\ [monsters'[1] EXCEPT !.hp = monsters[1].hp] = monsters[1]
           ELSE /\ player'.hp = player.hp - Max(1, monsters[1].attack - player.defense)
                /\ [player' EXCEPT !.hp = player.hp] = player]_vars

\* The defender's defense exceeds the attacker's attack and one point was lost.
FlooredDamageDealt ==
    /\ pc = "struck"
    /\ player.attack < monsters[1].defense
    /\ monsters[1].hp = monsters[1].max_hp - 1

\* C11: the XP award is added to the player's progression exactly when an
\* attack of the player brings its target's hp to 0 or below; monsters have
\* no progression and their attacks change none; the player hits live
\* monsters only, so a monster is killed for XP at most once.
XpOnKillOnly ==
    /\ [](\A i \in 1 .. Len(monsters) : monsters[i].level_system = None)
    /\ [][/\ pc = "input"
            => /\ \A i \in 1 .. Len(monsters) :
                    monsters'[i] # monsters[i] => monsters[i].hp > 0
               /\ player'.level_system =
                    IF \E i \in 1 .. Len(monsters) : monsters[i].hp > 0 /\ monsters'[i].hp <= 0
                    THEN Some(add_xp(Unwrap(player.level_system), XpPerKill).ls)
                    ELSE player.level_system
          /\ pc # "input" => player'.level_system = player.level_system]_vars

\* The player has just killed one of two monsters and holds the award.
KillAwarded ==
    /\ pc = "transition"
    /\ Len(monsters) = 2
    /\ monsters[1].hp <= 0
    /\ Unwrap(player.level_system).current_xp = XpPerKill

\* C12: an XP gain that reaches the threshold raises the level by one,
\* carries the surplus over, multiplies the threshold by 1.5 (truncated) and
\* applies the stat bonuses once; a gain that does not reach it changes only
\* current_xp.  From 80 XP at threshold 100, 50 XP give level 2, 30 XP and
\* threshold 150.
LevelUpExact ==
    /\ [](add_xp([level |-> 1, current_xp |-> 80, xp_to_next_level |-> 100], 50)
            = [ls |-> [level |-> 2, current_xp |-> 30, xp_to_next_level |-> 150],
               leveled |-> TRUE])
    /\ [][pc = "duel" /\ monsters[1].hp > 0 /\ monsters'[1].hp <= 0
            => LET ls == Unwrap(player.level_system)
                   total == ls.current_xp + XpPerKill
               IN  IF total >= ls.xp_to_next_level
                   THEN player' = [player EXCEPT
                            !.level_system = Some([level |-> ls.level + 1,
                                                   current_xp |-> total - ls.xp_to_next_level,
                                                   xp_to_next_level |-> (ls.xp_to_next_level * 3) \div 2]),
                            !.max_hp = player.max_hp + 5,
                            !.hp = player.max_hp + 5,
                            !.attack = player.attack + 2,
                            !.defense = player.defense + 1,
                            !.perception = player.perception + 1]
                   ELSE player' = [player EXCEPT
                            !.level_system = Some([ls EXCEPT !.current_xp = total])]]_vars

\* The kill at 80 of 100 XP: level 2 with 30 XP, threshold 150 and the bonuses.
LevelledWithSurplus ==
    /\ pc = "struck"
    /\ player.level_system = Some([level |-> 2, current_xp |-> 30, xp_to_next_level |-> 150])
    /\ player.max_hp = 35
    /\ player.hp = 35
    /\ player.attack = 7

\* The cells of the live monsters, as the monster phase finds them.
LivePositions == {<<monsters[k].x, monsters[k].y>> : k \in {j \in 1 .. Len(monsters) : monsters[j].hp > 0}}

\* C13: within one monster phase a monster's proposed step is rejected for
\* collision exactly when a monster that was alive stood on the destination
\* as the phase started, whatever the monsters processed earlier have done.
CollisionBySnapshot ==
    [][pc = "monsters"
        => \A i \in 1 .. Len(monsters) :
            (monsters[i].hp > 0 /\ current_time - monsters[i].last_move >= Cooldown(monsters[i]))
                => \E p \in ProposedSteps(monsters[i], player, current_map) :
                        <<monsters'[i].x, monsters'[i].y>> =
                            IF /\ is_walkable(current_map, p[1], p[2])
                               /\ p # <<player.x, player.y>>
                               /\ p \notin LivePositions
                            THEN p
                            ELSE <<monsters[i].x, monsters[i].y>>]_vars

\* The first monster stepped after the player, and the second, processed
\* after it in the same phase, was held back by the cell the first had left.
HeldBackByVacatedCell ==
    /\ pc = "purge"
    /\ Len(monsters) = 2
    /\ monsters[1].last_move = current_time
    /\ monsters[2].last_move = current_time
    /\ <<monsters[1].x, monsters[1].y>> = <<6, 3>>
    /\ <<monsters[2].x, monsters[2].y>> = <<8, 3>>
    /\ <<player.x, player.y>> = <<5, 3>>

\* The monsters that act in this monster phase.
ActingMonsters ==
    {i \in 1 .. Len(monsters) :
        monsters[i].hp > 0 /\ current_time - monsters[i].last_move >= Cooldown(monsters[i])}

\* C14: an acting monster whose proposed step is the player's cell attacks
\* the player, who loses the combat damage, and stays where it is; no
\* monster moves onto the player's cell by its own step.
AttackInsteadOfMove ==
    [][pc = "monsters"
        => LET cell == <<player.x, player.y>>
               may == {i \in ActingMonsters : cell \in ProposedSteps(monsters[i], player, current_map)}
               must == {i \in ActingMonsters : ProposedSteps(monsters[i], player, current_map) = {cell}}
               damage == Max(1, new_monster(0, 0).attack - player.defense)
           IN  /\ \A i \in 1 .. Len(monsters) :
                    <<monsters'[i].x, monsters'[i].y>> # <<monsters[i].x, monsters[i].y>>
                        => <<monsters'[i].x, monsters'[i].y>> # cell
               /\ \A i \in must : /\ monsters'[i].x = monsters[i].x
                                  /\ monsters'[i].y = monsters[i].y
                                  /\ monsters'[i].last_move = current_time
               /\ player.hp - player'.hp >= Cardinality(must) * damage
               /\ player.hp - player'.hp <= Cardinality(may) * damage
               /\ [player' EXCEPT !.hp = player.hp] = player]_vars

\* The monster next to the player has hit it in this tick and not moved.
MonsterHitAndStayed ==
    /\ pc = "purge"
    /\ <<player.x, player.y>> = <<6, 3>>
    /\ player.hp = 29
    /\ <<monsters[1].x, monsters[1].y>> = <<7, 3>>
    /\ monsters[1].last_move = current_time

\* C15: an acting monster within its perception radius of the player ends
\* on the first step of find_path or where it was; one that does not
\* perceive the player ends on one of its four neighbours or where it was;
\* a monster that does not act stays; and every change of position is one
\* cardinal step onto a walkable tile.
TwoModePolicy ==
    [][pc = "monsters"
        => \A i \in 1 .. Len(monsters) :
            LET old == <<monsters[i].x, monsters[i].y>>
                new == <<monsters'[i].x, monsters'[i].y>>
                dx == player.x - monsters[i].x
                dy == player.y - monsters[i].y
                near == 4 * (dx * dx + dy * dy) <= monsters[i].perception * monsters[i].perception
            IN  /\ i \notin ActingMonsters => new = old
                /\ (i \in ActingMonsters /\ near)
                        => new \in {old} \cup find_path_next(current_map, old, <<player.x, player.y>>)
                /\ (i \in ActingMonsters /\ ~near)
                        => new \in {old, <<old[1] + 1, old[2]>>, <<old[1] - 1, old[2]>>,
                                    <<old[1], old[2] + 1>>, <<old[1], old[2] - 1>>}
                /\ new # old => /\ manhattan_distance(old, new) = 1
                                /\ is_walkable(current_map, new[1], new[2])]_vars

\* In one phase the monster that perceives the player has taken the first
\* step of its path and the one that does not has wandered one cell.
ChasedAndWandered ==
    /\ pc = "purge"
    /\ <<player.x, player.y>> = <<2, 2>>
    /\ Len(monsters) = 2
    /\ <<monsters[1].x, monsters[1].y>> = <<7, 3>>
    /\ <<monsters[2].x, monsters[2].y>> = <<10, 5>>
    /\ ~can_perceive_target(monsters[2], player.x, player.y)

\* The number of steps of a shortest 4-directional walk from the cells of
\* `frontier` (d steps from the start) to `goal` over walkable cells; -1
\* when there is none.
RECURSIVE ShortestDistance(_, _, _, _, _)
ShortestDistance(map, frontier, seen, goal, d) ==
    IF goal \in frontier THEN d
    ELSE IF frontier = {} THEN -1
    ELSE LET next == {n \in UNION {Neighbors(c) : c \in frontier} :
                        n \notin seen /\ is_walkable(map, n[1], n[2])}
         IN  ShortestDistance(map, next, seen \cup next, goal, d + 1)

\* C16: find_path returns a path with as many steps as the shortest
\* 4-directional distance from start to goal when they are connected, and
\* None when they are not.
FindPathOptimal ==
    pc = "returned"
        => LET start == <<monsters[1].x, monsters[1].y>>
               d == ShortestDistance(current_map, {start}, {start}, PathGoal, 0)
           IN  IF d = -1 THEN returned = None
               ELSE /\ IsSome(returned)
                    /\ Len(Unwrap(returned)) - 1 = d

\* What does hold of find_path: None exactly for a goal out of reach, and
\* otherwise a walk of cardinal steps over walkable cells from start to goal.
FindPathSound ==
    pc = "returned"
        => LET start == <<monsters[1].x, monsters[1].y>>
               d == ShortestDistance(current_map, {start}, {start}, PathGoal, 0)
           IN  IF d = -1 THEN returned = None
               ELSE /\ IsSome(returned)
                    /\ LET path == Unwrap(returned)
                       IN  /\ path[1] = start
                           /\ path[Len(path)] = PathGoal
                           /\ Len(path) - 1 >= d
                           /\ \A k \in 1 .. Len(path) - 1 :
                                /\ manhattan_distance(path[k], path[k + 1]) = 1
                                /\ is_walkable(current_map, path[k + 1][1], path[k + 1][2])

\* C17: whatever candidates the random source produces, no two accepted
\* rooms overlap under the boundary-inclusive rectangle test, during the
\* room loop and on the generated floor.
NoRoomOverlap ==
    LET accepted == IF pc = "generated" THEN current_map.rooms[1] ELSE locals.temp_rooms
    IN  \A j \in 1 .. Len(accepted), k \in 1 .. Len(accepted) :
            j # k => \/ accepted[j].x > accepted[k].x + accepted[k].width
                     \/ accepted[j].x + accepted[j].width < accepted[k].x
                     \/ accepted[j].y > accepted[k].y + accepted[k].height
                     \/ accepted[j].y + accepted[j].height < accepted[k].y

\* A generated floor with two rooms: every other candidate of the fifteen
\* was turned down.
TwoRoomsAccepted ==
    /\ pc = "generated"
    /\ Len(current_map.rooms[1]) = 2

InScrollRange ==
    {i \in 1 .. Len(monsters) :
        /\ monsters[i].hp > 0
        /\ (monsters[i].x - player.x) * (monsters[i].x - player.x)
            + (monsters[i].y - player.y) * (monsters[i].y - player.y)
                <= LightningRange * LightningRange}

\* C19: a lightning scroll used with no live monster within range 5 fails
\* with "No monster in range!", the scroll stays and no monster's hp
\* changes; used with a live monster within range, the closest such monster
\* loses the scroll's damage and the scroll is removed.
LightningNeedsRange ==
    [][(/\ pc = "input" /\ pc' = "input"
        /\ returned' # None
        /\ Unwrap(returned').call = "use_item"
        /\ \E index \in 1 .. Len(Unwrap(player.inventory).items) :
            /\ Unwrap(player.inventory).items[index].kind = "Lightning"
            /\ \/ Unwrap(player'.inventory).items = RemoveAt(Unwrap(player.inventory).items, index)
               \/ Unwrap(returned').msg = "No monster in range!")
        => IF InScrollRange = {}
           THEN /\ Unwrap(returned') =
                        [call |-> "use_item", ok |-> FALSE, msg |-> "No monster in range!"]
                /\ player' = player
                /\ monsters' = monsters
           ELSE /\ Unwrap(returned').ok
                /\ Len(Unwrap(player'.inventory).items) = Len(Unwrap(player.inventory).items) - 1
                /\ \E i \in InScrollRange :
                    /\ \A j \in InScrollRange :
                        (monsters[i].x - player.x) * (monsters[i].x - player.x)
                            + (monsters[i].y - player.y) * (monsters[i].y - player.y)
                        <= (monsters[j].x - player.x) * (monsters[j].x - player.x)
                            + (monsters[j].y - player.y) * (monsters[j].y - player.y)
                    /\ monsters' = [monsters EXCEPT ![i].hp = @ - new_lightning_scroll.value]]_vars

\* C20: equip_item, use_item and remove_item with an index past the end,
\* equip_item on a potion or scroll, and use_item on a weapon, an armor or a
\* scroll whose effect is not implemented, return an error (None for
\* remove_item); and a call that returns an error leaves the item list, the
\* equipped weapon and armor and every actor as they were.
InventoryErrorsHarmless ==
    /\ [](LET inv == Unwrap(player.inventory)
              n == Len(inv.items)
          IN  /\ \A index \in n .. n + 1 :
                    /\ equip_item(inv, index) =
                            [ok |-> FALSE, msg |-> "Invalid item index!", inv |-> inv]
                    /\ use_item(inv, index, player, monsters) =
                            [ok |-> FALSE, msg |-> "Invalid item index!", inv |-> inv,
                             entity |-> player, monsters |-> monsters]
                    /\ remove_item(inv, index) = [item |-> None, inv |-> inv]
              /\ \A index \in 0 .. n - 1 :
                    /\ inv.items[index + 1].kind \in {"Potion", "Lightning", "Teleport"}
                        => equip_item(inv, index) =
                            [ok |-> FALSE, msg |-> "This item cannot be equipped!", inv |-> inv]
                    /\ inv.items[index + 1].kind \in {"Weapon", "Armor"}
                        => use_item(inv, index, player, monsters) =
                            [ok |-> FALSE, msg |-> "This item cannot be used!", inv |-> inv,
                             entity |-> player, monsters |-> monsters]
                    /\ inv.items[index + 1].kind = "Teleport"
                        => use_item(inv, index, player, monsters) =
                            [ok |-> FALSE, msg |-> "Effect not implemented!", inv |-> inv,
                             entity |-> player, monsters |-> monsters])
    /\ [][(returned' # None /\ ~Unwrap(returned').ok)
            => (player' = player /\ monsters' = monsters)]_vars

\* After a weapon was equipped in place of another and a potion used, an
\* attempt to equip a scroll has just been refused.
EquipRefusedAfterSwap ==
    /\ returned = Some([call |-> "equip_item", ok |-> FALSE,
                        msg |-> "This item cannot be equipped!"])
    /\ player.hp = 30
    /\ Unwrap(player.inventory).equipped_weapon = Some(new_sword)
    /\ Unwrap(player.inventory).items
            = <<new_armor, new_lightning_scroll, teleport_scroll, new_sword>>

\* C21: after any sequence of add_log_message calls the log holds at most
\* five entries, which are the messages added last, in the order they were
\* added; a call on a full log drops the oldest entry and nothing else.
LogBoundedFifo ==
    /\ [](LET n == Len(locals.added)
              kept == Min(n, LogCapacity)
          IN  /\ Len(combat_log) = kept
              /\ Len(combat_log) <= LogCapacity
              /\ \A k \in 1 .. kept : combat_log[k] = locals.added[n - kept + k])
    /\ [][Len(combat_log) = LogCapacity
            => /\ Len(combat_log') = LogCapacity
               /\ \A k \in 1 .. LogCapacity - 1 : combat_log'[k] = combat_log[k + 1]
               /\ combat_log'[LogCapacity] = locals'.added[Len(locals'.added)]]_vars

\* Seven messages were added: the first two are gone and the log ends with
\* the newest, which differs from the one it would have kept otherwise.
LogOverflowedTwice ==
    /\ Len(locals.added) = 7
    /\ locals.added[1] = "Picked up Sword!"
    /\ locals.added[6] = "Ascended to level 1"
    /\ combat_log[1] = "Descended to level 2"
    /\ combat_log[LogCapacity] = "Picked up Sword!"

\* C22: in every state the program runs in, current_level is one of the
\* indices 0 .. max_depth - 1 and a floor that maps already holds.
CurrentLevelGenerated ==
    /\ pc # "panicked"
    /\ current_level \in Levels
    /\ current_level < Len(maps)

\* The deepest floor was reached, and a request for the floor below it has
\* just been turned down.
RefusedBelowDeepest ==
    /\ pc = "monsters"
    /\ current_level = DeepestLevel
    /\ Len(maps) = MaxDepth
    /\ requested = Some(MaxDepth)


\* The stairs of one floor, by its depth: the floor at position k of maps.
FloorStairs(map, k) ==
    LET last_row == map.rooms[Len(map.rooms)]
    IN  /\ map.level = k - 1
        /\ map.level < DeepestLevel =>
               /\ map.rooms # <<>>
               /\ last_row # <<>>
               /\ map.down_stairs = Some(center(last_row[Len(last_row)]))
               /\ map.tiles[center(last_row[Len(last_row)])] = "StairsDown"
        /\ map.level = DeepestLevel =>
               /\ map.down_stairs = None
               /\ \A c \in DOMAIN map.tiles : map.tiles[c] # "StairsDown"
        /\ map.level = 0 => \A c \in DOMAIN map.tiles : map.tiles[c] # "StairsUp"
        /\ \A c \in DOMAIN map.tiles :
               IsSome(check_for_stairs(map, c[1], c[2]))
                   => Unwrap(check_for_stairs(map, c[1], c[2])) \in Levels

\* C23: every generated floor above the deepest has a StairsDown tile at the
\* center of the last room of its last row and records that cell as
\* down_stairs; the deepest floor has no StairsDown tile and the first floor
\* no StairsUp tile; so the floor that the stairs of any cell of a generated
\* floor lead to is one of 0 .. max_depth - 1.  This holds of the floors
\* held at the start and of every floor that maps gains or changes in a step.
StairsByDepth ==
    /\ \A k \in 1 .. Len(maps) : FloorStairs(maps[k], k)
    /\ [][\A k \in 1 .. Len(maps') :
            (k > Len(maps) \/ maps'[k] # maps[k]) => FloorStairs(maps'[k], k)]_vars

\* The player arrived on the deepest floor and stands on its up stairs, all
\* ten floors generated.
OnDeepestFloorStairs ==
    /\ pc = "input"
    /\ Len(maps) = MaxDepth
    /\ current_level = DeepestLevel
    /\ check_for_stairs(current_map, player.x, player.y) = Some(DeepestLevel - 1)


\* C24: after every successful transition the tile under the player on the
\* destination floor is the stairs that lead back: StairsUp after a descent,
\* StairsDown after an ascent.
StairsLeadBack ==
    [][ChangedFloor /\ current_level' \in Levels
        => LET dest == maps'[current_level' + 1]
               under == dest.tiles[<<player'.x, player'.y>>]
           IN  IF current_level' > current_level
               THEN under = "StairsUp"
               ELSE under = "StairsDown"]_vars


\* The player has just made the first descent to a floor and stands away from
\* its up stairs, on a tile that is not StairsUp.
DescendedOffUpStairs ==
    /\ JustEntered
    /\ rng_family = 2
    /\ current_level = 1
    /\ ~IsSome(left_behind[current_level])
    /\ current_map.up_stairs = Some(<<3, 3>>)
    /\ <<player.x, player.y>> = <<9, 3>>
    /\ current_map.tiles[<<player.x, player.y>>] # "StairsUp"


\* C25: on a generated floor the rooms of every row are in ascending order
\* of their horizontal coordinate, and the down stairs are at the center of
\* the room that is last in that order.
RoomsOrderedInRows ==
    pc = "generated" =>
        /\ \A r \in 1 .. Len(current_map.rooms) :
               \A j \in 1 .. Len(current_map.rooms[r]), k \in 1 .. Len(current_map.rooms[r]) :
                   j < k => current_map.rooms[r][j].x <= current_map.rooms[r][k].x
        /\ \A r \in 1 .. Len(current_map.rooms) :
               \A j \in 1 .. Len(current_map.rooms[r]) :
                   IsSome(current_map.down_stairs)
                       => Unwrap(current_map.down_stairs)[1]
                              >= center(current_map.rooms[r][j])[1]

\* A generated floor whose second accepted room lies left of the first: the
\* single row holds them in acceptance order.
RoomsInAcceptanceOrder ==
    /\ pc = "generated"
    /\ Len(current_map.rooms) = 1
    /\ Len(current_map.rooms[1]) = 2
    /\ current_map.rooms[1] = locals.temp_rooms
    /\ current_map.rooms[1][1].x = 7
    /\ current_map.rooms[1][2].x = 1
    /\ current_map.down_stairs = Some(<<3, 3>>)


\* C26: a cell that a live monster occupied as the monster phase started and
\* left earlier in the same phase does not hold back a monster processed
\* later: a monster whose only proposed step is such a cell, walkable and not
\* the player's, makes the step.
VacatedCellPassable ==
    [][pc = "monsters"
        => \A i \in ActingMonsters :
            \A p \in ProposedSteps(monsters[i], player, current_map) :
                (/\ ProposedSteps(monsters[i], player, current_map) = {p}
                 /\ is_walkable(current_map, p[1], p[2])
                 /\ p # <<player.x, player.y>>
                 /\ p \in LivePositions
                 /\ \A k \in 1 .. Len(monsters) :
                        (monsters[k].hp > 0 /\ <<monsters[k].x, monsters[k].y>> = p)
                            => /\ k < i
                               /\ <<monsters'[k].x, monsters'[k].y>> # p)
                    => <<monsters'[i].x, monsters'[i].y>> = p]_vars


\* C27: a tick runs the player's input, then the level-transition check,
\* then the monsters' turns, then the purge.  A monster that is dead when the
\* monsters' turns begin is left as it is, with its position and last_move,
\* and the player loses nothing unless a live monster off cooldown acts.  In
\* a tick in which the floor changed the monsters that take their turns are
\* the list of the floor entered, and what was saved of the floor left does
\* not change.
TickOrder ==
    [][/\ pc = "input" => /\ pc' \in {"transition", "monsters"}
                          /\ current_level' = current_level
                          /\ (pc' = "monsters" => monsters' = monsters /\ player' = player)
       /\ pc = "transition" => /\ pc' \in {"monsters", "panicked"}
                               /\ current_time' = current_time
                               /\ (current_level' = current_level => monsters' = monsters)
       /\ pc = "monsters"
            => /\ pc' = "purge"
               /\ Len(monsters') = Len(monsters)
               /\ \A i \in 1 .. Len(monsters) :
                      monsters[i].hp <= 0 => monsters'[i] = monsters[i]
               /\ ActingMonsters = {} => player' = player
               /\ player' # player
                      => \E i \in ActingMonsters :
                            /\ monsters'[i].last_move = current_time
                            /\ <<monsters'[i].x, monsters'[i].y>> = <<monsters[i].x, monsters[i].y>>
               /\ JustEntered
                      => /\ level_states' = level_states
                         /\ Len(level_states) > current_level
                                => monsters = level_states[current_level + 1].monsters
                         /\ \A l \in Levels \ {current_level} :
                                l < Len(level_states)
                                    => level_states'[l + 1] = level_states[l + 1]
       /\ pc = "purge" => pc' = "input" /\ player' = player]_vars

\* The monster east of the player was killed in this tick, when it was off
\* cooldown and next to the player, and took no turn: as the purge begins it
\* still has the last_move it had before the tick.
KilledBeforeItsTurn ==
    /\ pc = "purge"
    /\ current_level = 1
    /\ Len(monsters) = 2
    /\ monsters[1].hp <= 0
    /\ <<monsters[1].x, monsters[1].y>> = <<4, 3>>
    /\ <<player.x, player.y>> = <<3, 3>>
    /\ player.last_move = current_time
    /\ current_time - monsters[1].last_move >= Cooldown(monsters[1])


\* C28: whatever movement keys are down in a tick, the player's input moves
\* the player by at most one cell to the north, south, east or west, never
\* diagonally, and only onto a walkable tile that holds no live monster.
CardinalStep ==
    [][pc = "input"
        => /\ Abs(player'.x - player.x) + Abs(player'.y - player.y) <= 1
           /\ <<player'.x, player'.y>> # <<player.x, player.y>>
                => /\ is_walkable(current_map, player'.x, player'.y)
                   /\ FirstMonsterAt(monsters, player'.x, player'.y) = 0]_vars

\* The player has just gone from the stairs of the first floor to the cell
\* diagonally above and to the right of them in one tick.
MovedDiagonally ==
    /\ pc = "transition"
    /\ current_level = 0
    /\ current_time = 1
    /\ player.last_move = 1
    /\ <<player.x, player.y>> = <<4, 2>>


\* The cells strictly inside a room, and the cells of its whole rectangle.
Inside(room) ==
    ((room.x + 1) .. (room.x + room.width - 2)) \X ((room.y + 1) .. (room.y + room.height - 2))

Rectangle(room) ==
    (room.x .. (room.x + room.width - 1)) \X (room.y .. (room.y + room.height - 1))

\* C29: while and after a floor is populated for the first time, no monster
\* stands in the first room of any row, every other room holds at most two
\* monsters, every monster stands on a walkable tile strictly inside a room
\* that is not the first of its row, and every room holds at most one ground
\* item, every item lying strictly inside a room.
FreshPopulation ==
    pc \in {"initialize", "populated"} =>
        LET spawned == IF locals.phase = "items" THEN monsters ELSE locals.new_monsters
            items == IF locals.phase = "items" THEN ground_items ELSE <<>>
            rows == current_map.rooms
            MonstersIn(cells) == {j \in 1 .. Len(spawned) : <<spawned[j].x, spawned[j].y>> \in cells}
            ItemsIn(cells) == {j \in 1 .. Len(items) : <<items[j].x, items[j].y>> \in cells}
        IN  /\ \A r \in 1 .. Len(rows) :
                /\ rows[r] # <<>> => MonstersIn(Rectangle(rows[r][1])) = {}
                /\ \A j \in 1 .. Len(rows[r]) :
                    /\ Cardinality(MonstersIn(Rectangle(rows[r][j]))) <= 2
                    /\ Cardinality(ItemsIn(Rectangle(rows[r][j]))) <= 1
            /\ \A j \in 1 .. Len(spawned) :
                /\ is_walkable(current_map, spawned[j].x, spawned[j].y)
                /\ spawned[j].hp = spawned[j].max_hp
                /\ \E r \in 1 .. Len(rows) : \E k \in 2 .. Len(rows[r]) :
                        <<spawned[j].x, spawned[j].y>> \in Inside(rows[r][k])
            /\ \A j \in 1 .. Len(items) :
                \E r \in 1 .. Len(rows) : \E k \in 1 .. Len(rows[r]) :
                        <<items[j].x, items[j].y>> \in Inside(rows[r][k])

\* A floor of two rooms has been populated: two monsters on different cells
\* of the second room, none in the first, and an item in each room.
TwoRoomsPopulated ==
    /\ pc = "populated"
    /\ Len(current_map.rooms[1]) = 2
    /\ Len(monsters) = 2
    /\ <<monsters[1].x, monsters[1].y>> # <<monsters[2].x, monsters[2].y>>
    /\ Len(ground_items) = 2
    /\ <<ground_items[1].x, ground_items[1].y>> \in Inside(current_map.rooms[1][1])
    /\ <<ground_items[2].x, ground_items[2].y>> \in Inside(current_map.rooms[1][2])


\* The number of ground items, and of inventory items, that are `item`.
OnGround(gs, item) == Cardinality({k \in 1 .. Len(gs) : gs[k].item = item})

Held(plr, item) ==
    Cardinality({k \in 1 .. Len(Unwrap(plr.inventory).items) : Unwrap(plr.inventory).items[k] = item})

\* C30: a call of check_and_pickup_items or pick_up_item made with a full
\* inventory leaves the ground items and the inventory as they were, and no
\* call loses or duplicates an item: of every item, the ground and the
\* inventory together hold as many after the call as before.
PickupConserves ==
    [][pc = "pickup"
        => /\ \A item \in PickupItems \cup {new_lightning_scroll} :
                OnGround(ground_items', item) + Held(player', item)
                    = OnGround(ground_items, item) + Held(player, item)
           /\ Len(Unwrap(player.inventory).items) >= Unwrap(player.inventory).capacity
                => /\ ground_items' = ground_items
                   /\ player' = player]_vars

\* pick_up_item was called with a full inventory on a cell that held the only
\* ground item: the call reported the full inventory and the item is gone.
ItemDropped ==
    /\ pc = "pickup"
    /\ returned = Some([call |-> "pick_up_item", result |-> Some("Inventory is full!")])
    /\ ground_items = <<>>
    /\ combat_log = <<>>
    /\ \A item \in PickupItems : Held(player, item) = 0


\* C31: no two live monsters of the current floor stand on the same cell.
NoSharedCell ==
    \A i \in 1 .. Len(monsters), j \in 1 .. Len(monsters) :
        (i # j /\ monsters[i].hp > 0 /\ monsters[j].hp > 0)
            => <<monsters[i].x, monsters[i].y>> # <<monsters[j].x, monsters[j].y>>

\* A floor has just been populated and two live monsters of its second room
\* stand on the same cell.
SpawnedOnSameCell ==
    /\ pc = "populated"
    /\ Len(monsters) = 2
    /\ monsters[1].hp > 0 /\ monsters[2].hp > 0
    /\ <<monsters[1].x, monsters[1].y>> = <<monsters[2].x, monsters[2].y>>


\* C32: no live monster of the current floor stands on the player's cell,
\* in any phase of any tick, the state right after an arrival by stairs
\* included.
PlayerCellFree ==
    \A i \in 1 .. Len(monsters) :
        monsters[i].hp > 0 => <<monsters[i].x, monsters[i].y>> # <<player.x, player.y>>

\* The player left the second floor by its up stairs, came back down onto
\* them between the two monsters that had been left there, and was struck.
ArrivedBetweenMonsters ==
    /\ pc = "purge"
    /\ current_level = 1
    /\ IsSome(left_behind[1])
    /\ <<player.x, player.y>> = <<3, 3>>
    /\ player.hp < player.max_hp
    /\ Len(monsters) = 2
    /\ monsters[1].hp > 0 /\ <<monsters[1].x, monsters[1].y>> = <<4, 3>>
    /\ monsters[2].hp > 0 /\ <<monsters[2].x, monsters[2].y>> = <<2, 3>>


\* The cells of the outermost ring of a floor's grid.
Ring(map) ==
    {c \in DOMAIN map.tiles :
        c[1] = 0 \/ c[2] = 0 \/ c[1] = map.width - 1 \/ c[2] = map.height - 1}

\* The tile under an actor is inside the grid and is Floor or stairs.
OnWalkableTile(map, e) ==
    /\ e.x >= 0 /\ e.x < map.width
    /\ e.y >= 0 /\ e.y < map.height
    /\ map.tiles[<<e.x, e.y>>] \in {"Floor", "StairsUp", "StairsDown"}

\* C33: the player and every live monster stand on a tile of the current
\* floor that is inside the grid and is Floor, StairsUp or StairsDown, and
\* every cell of the outermost ring of the current floor is Wall.
ActorsOnWalkableTiles ==
    /\ OnWalkableTile(current_map, player)
    /\ \A i \in 1 .. Len(monsters) :
            monsters[i].hp > 0 => OnWalkableTile(current_map, monsters[i])
    /\ \A c \in Ring(current_map) : current_map.tiles[c] = "Wall"

\* The player walked to the west wall of the first room and pressed on: the
\* third step, onto the ring, was refused.
StoppedAtTheRing ==
    /\ pc = "transition"
    /\ current_time = MidStart + 2
    /\ player.last_move = current_time
    /\ <<player.x, player.y>> = <<1, 2>>
    /\ current_map.tiles[<<0, 2>>] = "Wall"


\* C34: no saved floor state holds a dead monster: every monster of every
\* entry of level_states has hp > 0.
SnapshotsHoldLiveOnly ==
    \A l \in 1 .. Len(level_states) :
        \A i \in 1 .. Len(level_states[l].monsters) : level_states[l].monsters[i].hp > 0

\* The player killed the monster to the east and took the up stairs in the
\* same tick; after coming back down, the dead monster is in the live list
\* again as the monsters' turns begin.
DeadMonsterRestored ==
    /\ JustEntered
    /\ current_level = 1
    /\ IsSome(left_behind[1])
    /\ Len(monsters) = 2
    /\ monsters[1].hp <= 0
    /\ monsters = level_states[2].monsters


\* C35: a transition that the level-transition check starts never fails.
\* Whenever the check makes a request, the player stands on StairsDown and
\* the request is for the next floor, whose generation finds the down stairs
\* of the current floor, or the player stands on StairsUp and the request is
\* for the previous floor; the target is one of 0 .. max_depth - 1, nothing
\* panics, change_level returns a spawn point, the target becomes the
\* current floor, maps holds it at its own index (gaining at most that one
\* floor) and the arrival is logged.  Every floor held has a room.
TransitionNeverFails ==
    /\ [](\A k \in 1 .. Len(maps) : maps[k].rooms # <<>> /\ maps[k].rooms[1] # <<>>)
    /\ [][pc = "transition"
            => /\ pc' = "monsters"
               /\ IsSome(requested')
                    => LET target == Unwrap(requested')
                           under == current_map.tiles[<<player.x, player.y>>]
                           r == change_level(rng_family, maps, current_level, target)
                       IN  /\ \/ under = "StairsDown" /\ target = current_level + 1
                              \/ under = "StairsUp" /\ target = current_level - 1
                           /\ target >= Len(maps) => IsSome(current_map.down_stairs)
                           /\ target \in Levels
                           /\ ~r.panic
                           /\ IsSome(r.spawn)
                           /\ current_level' = target
                           /\ Len(maps') = Max(Len(maps), target + 1)
                           /\ maps'[target + 1].level = target
                           /\ \A k \in 1 .. Len(maps) : maps'[k] = maps[k]
                           /\ combat_log' # combat_log
                           /\ combat_log'[Len(combat_log')] =
                                (IF target > current_level THEN "Descended" ELSE "Ascended")
                                    \o " to level " \o ToString(target + 1)]_vars

\* The player went down to the deepest floor, which was generated on the
\* way, and has just come back up to the floor above it.
BackFromDeepest ==
    /\ JustEntered
    /\ current_level = DeepestLevel - 1
    /\ Len(maps) = MaxDepth
    /\ combat_log[Len(combat_log)] = "Ascended to level 9"


\* C36: find_path returns for every start and goal, and a path it returns
\* begins at start, ends at goal, steps between cardinally adjacent cells and
\* has every cell after the first walkable; for goal = start it is the path
\* of that one cell.
FindPathReturnsWalk ==
    /\ <>(pc = "returned")
    /\ [](pc = "returned" /\ IsSome(returned)
            => LET start == <<monsters[1].x, monsters[1].y>>
                   path == Unwrap(returned)
               IN  /\ Len(path) >= 1
                   /\ path[1] = start
                   /\ path[Len(path)] = PathGoal
                   /\ \A k \in 1 .. Len(path) - 1 :
                        /\ manhattan_distance(path[k], path[k + 1]) = 1
                        /\ is_walkable(current_map, path[k + 1][1], path[k + 1][2])
                   /\ start = PathGoal => path = <<start>>)

\* find_path returned the one-cell path for a start that is a wall and is
\* its own goal.
OneCellPathOnWall ==
    /\ pc = "returned"
    /\ <<monsters[1].x, monsters[1].y>> = <<2, 1>>
    /\ PathGoal = <<2, 1>>
    /\ current_map.tiles[<<2, 1>>] = "Wall"
    /\ returned = Some(<< <<2, 1>> >>)


\* C37: after any sequence of kills the player's current_xp is at least 0
\* and below xp_to_next_level, the level never goes down, and one award of
\* XP raises the level by at most 1.
ProgressionInvariant ==
    /\ [](LET ls == Unwrap(player.level_system)
          IN  0 <= ls.current_xp /\ ls.current_xp < ls.xp_to_next_level)
    /\ [][/\ Unwrap(player'.level_system).level >= Unwrap(player.level_system).level
          /\ Unwrap(player'.level_system).level <= Unwrap(player.level_system).level + 1]_vars

\* Ten kills brought the player to level 4 with a surplus of 25 XP carried
\* over the threshold of 225.
TenKills ==
    /\ pc = "kills"
    /\ locals.attacks = 10
    /\ Unwrap(player.level_system) = [level |-> 4, current_xp |-> 25, xp_to_next_level |-> 337]


Carried(inv) == Len(inv.items)

Equipped(inv) ==
    (IF IsSome(inv.equipped_weapon) THEN 1 ELSE 0) + (IF IsSome(inv.equipped_armor) THEN 1 ELSE 0)

\* C38: the inventory never lists more items than its capacity; add_item called
\* on a full inventory returns Err and changes nothing; equip_item leaves the
\* number of listed items plus the number of equipped items as it was, and when
\* it succeeds the item equipped is the one that was at the index and the item
\* equipped before in that slot, if any, is back at the end of the list.
InventoryInvariant ==
    /\ [](Carried(Unwrap(player.inventory)) <= Unwrap(player.inventory).capacity)
    /\ [][LET inv == Unwrap(player.inventory)
              after == Unwrap(player'.inventory)
              call == Unwrap(returned').call
          IN  /\ call = "add_item" /\ Carried(inv) >= inv.capacity
                    => ~Unwrap(returned').ok /\ player' = player /\ monsters' = monsters
              /\ call = "equip_item"
                    => /\ Carried(after) + Equipped(after) = Carried(inv) + Equipped(inv)
                       /\ ~Unwrap(returned').ok => after = inv
                       /\ Unwrap(returned').ok /\ IsSome(inv.equipped_weapon)
                                /\ after.equipped_weapon # inv.equipped_weapon
                             => after.items[Len(after.items)] = Unwrap(inv.equipped_weapon)]_vars

FullAfterSwap ==
    /\ pc = "input"
    /\ locals = [adds |-> MaxAdds]
    /\ returned = Some([call |-> "add_item", ok |-> FALSE, msg |-> "Inventory is full!"])
    /\ Unwrap(player.inventory).capacity = MaxCarry
    /\ Unwrap(player.inventory).items = <<new_health_potion, new_sword>>
    /\ Unwrap(player.inventory).equipped_weapon = Some(new_sword)


\* C39: from the moment the player's hp is 0 or less, no step of the loop
\* changes the player's position, cooldown stamp, inventory or progression,
\* the current floor, the floors, the saved floor states or the items on the
\* ground, no step lowers a monster's hp, and the hp never comes back above 0.
DeadPlayerActsNoMore ==
    [][player.hp <= 0
        => /\ player'.hp <= 0
           /\ <<player'.x, player'.y>> = <<player.x, player.y>>
           /\ player'.last_move = player.last_move
           /\ player'.inventory = player.inventory
           /\ player'.level_system = player.level_system
           /\ <<player'.max_hp, player'.attack, player'.defense>>
                = <<player.max_hp, player.attack, player.defense>>
           /\ current_level' = current_level
           /\ maps' = maps
           /\ level_states' = level_states
           /\ ground_items' = ground_items
           /\ pc # "purge"
                => /\ Len(monsters') = Len(monsters)
                   /\ \A i \in 1 .. Len(monsters) : monsters'[i].hp = monsters[i].hp]_vars

StruckAfterDeath ==
    /\ pc = "purge"
    /\ current_time = MidStart + 1
    /\ player.hp = -1
    /\ monsters[1].last_move = MidStart
    /\ monsters[2].last_move = MidStart + 1
    /\ <<player.x, player.y>> = <<3, 3>>

====
